---------------------------- MODULE Spec2Model ----------------------------
(***************************************************************************)
(* A model of the segment interpretation loop of the X12 claim viewer      *)
(* parser (src/parser_for_viewer.py, parse_x12_for_viewer) and of its      *)
(* value coercion helpers.                                                 *)
(*                                                                         *)
(* A segment is the list `elements` of the code (seg_str.split('*')): a    *)
(* sequence of strings whose first entry is the tag.  Python index i is    *)
(* position i+1 of the sequence.  Python dicts are functions from key      *)
(* strings to values; the address dicts, which the code shares between     *)
(* temp_addresses, the party records and the claims, live in `heap` and    *)
(* are held by reference (their index in heap).                            *)
(***************************************************************************)
EXTENDS Integers, Sequences, FiniteSets, TLC

\* Longest stream the reader delivers, per specification.
MaxStream == 3
MaxLines == 5
MaxDiag == 5
MaxParty == 6
MaxRecord == 5
MaxSeal == 6
MaxPayer == 5
MaxEntity == 5
MaxFacility == 7
MaxRoles == 4
MaxDates == 4
MaxHeader == 2
MaxCodes == 3
MaxAmounts == 4
MaxShort == 3
MaxTransaction == 4
MaxReintroduced == 6
MaxNoClaim == 4
MaxScoped == 5
MaxUnclaimed == 5
MaxClaimLines == 5

-----------------------------------------------------------------------------
(* Python values *)

\* {} : the empty dict.  None (for current_claim) is modelled by the same
\* value: both are falsy, and the code never binds current_claim to {}.
EmptyDict == [k \in {} |-> ""]

None == EmptyDict

\* current_entity = None
NoEntity == "None"

\* Python truth value of a dict or a list
Truthy(v) == DOMAIN v # {}

\* d[k] = v
Put(d, k, v) == [x \in (DOMAIN d) \cup {k} |-> IF x = k THEN v ELSE d[x]]

\* d.get(k, default)
Get(d, k, default) == IF k \in DOMAIN d THEN d[k] ELSE default

\* El, with a marker in place of the default
El_no_default(elements, i) ==
    IF Len(elements) > i THEN elements[i + 1] ELSE "IndexError"

\* elements[i] if len(elements) > i else ""
El(elements, i) == IF Len(elements) > i THEN elements[i + 1] ELSE ""

-----------------------------------------------------------------------------
(* Value coercion utilities *)

Digits == {"0", "1", "2", "3", "4", "5", "6", "7", "8", "9"}

DigitVal(c) ==
    CASE c = "0" -> 0 [] c = "1" -> 1 [] c = "2" -> 2 [] c = "3" -> 3
      [] c = "4" -> 4 [] c = "5" -> 5 [] c = "6" -> 6 [] c = "7" -> 7
      [] c = "8" -> 8 [] c = "9" -> 9

Char(s, i) == SubSeq(s, i, i)

\* c in s
Contains(s, c) == \E i \in 1..Len(s) : Char(s, i) = c

\* parse_date, reshaping every string of 8 characters or more
parse_date_8_or_more(date_str) ==
    IF date_str = "" \/ Len(date_str) < 8
    THEN date_str
    ELSE SubSeq(date_str, 1, 4) \o "-" \o SubSeq(date_str, 5, 6) \o "-"
             \o SubSeq(date_str, 7, 8)

parse_date(date_str) ==
    IF date_str = "" \/ Len(date_str) # 8
    THEN date_str
    ELSE SubSeq(date_str, 1, 4) \o "-" \o SubSeq(date_str, 5, 6) \o "-"
             \o SubSeq(date_str, 7, 8)

\* parse_time, reshaping strings of 4 characters only
parse_time_exactly_4(time_str) ==
    IF time_str = "" \/ Len(time_str) # 4
    THEN time_str
    ELSE SubSeq(time_str, 1, 2) \o ":" \o SubSeq(time_str, 3, 4)

parse_time(time_str) ==
    IF time_str = "" \/ Len(time_str) < 4
    THEN time_str
    ELSE SubSeq(time_str, 1, 2) \o ":" \o SubSeq(time_str, 3, 4)

\* s.split(c)[-1] : what follows the last c of s (s itself without c)
RECURSIVE AfterLast(_, _)
AfterLast(s, c) ==
    IF Contains(s, c)
    THEN AfterLast(SubSeq(s, (CHOOSE i \in 1..Len(s) : Char(s, i) = c) + 1, Len(s)), c)
    ELSE s

\* s.split(c)[0]
BeforeFirst(s, c) ==
    IF Contains(s, c)
    THEN SubSeq(s, 1, (CHOOSE i \in 1..Len(s) :
                          Char(s, i) = c /\ \A j \in 1..(i - 1) : Char(s, j) # c) - 1)
    ELSE s

\* s.split(c)[1], for s containing c
SecondPart(s, c) ==
    BeforeFirst(SubSeq(s, Len(BeforeFirst(s, c)) + 2, Len(s)), c)

\* clean_code, with the qualifier kept
clean_code_keeps_qualifier(code) == code

clean_code(code) ==
    IF code = "" THEN ""
    ELSE IF Contains(code, ":") THEN AfterLast(code, ":") ELSE code

\* str(value).replace('~', '')
RECURSIVE RemoveTilde(_)
RemoveTilde(s) ==
    IF s = "" THEN ""
    ELSE IF Head(s) = "~" THEN RemoveTilde(Tail(s))
    ELSE Head(s) \o RemoveTilde(Tail(s))

\* s.strip(), for the blank
RECURSIVE Strip(_)
Strip(s) ==
    IF s = "" THEN ""
    ELSE IF Head(s) = " " THEN Strip(Tail(s))
    ELSE IF Char(s, Len(s)) = " " THEN Strip(SubSeq(s, 1, Len(s) - 1))
    ELSE s

AllDigits(s) == s # "" /\ \A i \in 1..Len(s) : Char(s, i) \in Digits

RECURSIVE NatOf(_)
NatOf(s) == IF s = "" THEN 0 ELSE 10 * NatOf(SubSeq(s, 1, Len(s) - 1)) + DigitVal(Char(s, Len(s)))

\* Does int(cleaned) succeed: an optional sign and decimal digits.
IntParses(s) ==
    \/ AllDigits(s)
    \/ Len(s) > 1 /\ Head(s) \in {"+", "-"} /\ AllDigits(Tail(s))

IntOf(s) ==
    IF Head(s) = "-" THEN 0 - NatOf(Tail(s))
    ELSE IF Head(s) = "+" THEN NatOf(Tail(s))
    ELSE NatOf(s)

safe_int(value, default) ==
    IF value = "" THEN default
    ELSE LET cleaned == Strip(RemoveTilde(value))
         IN IF cleaned = "" THEN default
            ELSE IF IntParses(cleaned) THEN IntOf(cleaned) ELSE default

\* The letters of float's special literals, in lower case
LowerChar(c) ==
    CASE c = "A" -> "a" [] c = "F" -> "f" [] c = "I" -> "i"
      [] c = "N" -> "n" [] c = "T" -> "t" [] c = "Y" -> "y"
      [] OTHER -> c

RECURSIVE Lower(_)
Lower(s) == IF s = "" THEN "" ELSE LowerChar(Head(s)) \o Lower(Tail(s))

\* s without its sign
Unsigned(s) == IF s # "" /\ Head(s) \in {"+", "-"} THEN Tail(s) ELSE s

\* A decimal number: an optional sign, decimal digits and at most one point
\* with a digit on one side of it.
DecimalLiteral(s) ==
    LET u == Unsigned(s)
        ip == BeforeFirst(u, ".")
        fp == IF Contains(u, ".") THEN SubSeq(u, Len(ip) + 2, Len(u)) ELSE ""
    IN /\ u # ""
       /\ ip = "" \/ AllDigits(ip)
       /\ fp = "" \/ AllDigits(fp)
       /\ ip # "" \/ fp # ""

\* The literals float() takes besides numbers, in any letter case and with
\* an optional sign
SpecialLiteral(s) == Lower(Unsigned(s)) \in {"nan", "inf", "infinity"}

\* Does float(cleaned) succeed (the exponent and digit-group forms of
\* float() are not modelled: no stream of this module carries them).
FloatParses(s) == DecimalLiteral(s) \/ SpecialLiteral(s)

\* The value of float(s): a decimal number is held in hundredths (the
\* monetary amounts of the streams have at most two decimals; further
\* decimals are cut), the special values by their name.
FloatOf(s) ==
    LET neg == Head(s) = "-"
        u == Unsigned(s)
        ip == BeforeFirst(u, ".")
        fp == IF Contains(u, ".") THEN SubSeq(u, Len(ip) + 2, Len(u)) ELSE ""
        f2 == SubSeq(fp \o "00", 1, 2)
        v == 100 * NatOf(ip) + NatOf(f2)
    IN IF SpecialLiteral(s)
       THEN IF Lower(u) = "nan" THEN "nan" ELSE IF neg THEN "-inf" ELSE "inf"
       ELSE IF neg THEN 0 - v ELSE v

safe_float(value, default) ==
    IF value = "" THEN default
    ELSE LET cleaned == Strip(RemoveTilde(value))
         IN IF cleaned = "" THEN default
            ELSE IF FloatParses(cleaned) THEN FloatOf(cleaned) ELSE default

-----------------------------------------------------------------------------
(* The interpreter state of parse_x12_for_viewer *)

VARIABLES
    consumed,          \* the segments the reader has delivered so far, in order
    pc,                \* "loop": in the for loop; "done": the function has returned
    transaction, submitter, receiver, billing_provider, pay_to_provider,
    subscriber, payer,
    current_claim, claims_data,
    temp_addresses,    \* current_entity -> reference of the pending address
    current_entity,
    heap,              \* the address dicts, by reference
    results,           \* the section arrays, one per claim
    returned,          \* the value returned
    program,           \* the function that runs
    result,            \* translate_x12_complete_structured: the structure built
    current_service_lines,
    driver,            \* the batch function that calls, "none" for a direct call
    input_files,       \* batch: the files found, in the order of the for loop
    file_index,        \* batch: the number of files the for loop has finished
    success_count, error_count,
    batch_results,     \* batch_translate: the list `results`
    writes,            \* the files opened for writing, in order, with what was written
    history            \* per finished file: its stream and the outcome of the call

parties == <<submitter, receiver, billing_provider, pay_to_provider, subscriber, payer>>
tracker == <<current_entity, temp_addresses>>
claims == <<current_claim, claims_data>>
interp == <<transaction, parties, tracker, claims, heap>>
output == <<results, returned>>
translator == <<result, current_service_lines>>
batch == <<driver, input_files, file_index, success_count, error_count,
           batch_results, writes, history>>
vars == <<consumed, pc, interp, output, program, translator, batch>>

\* A direct call of the function: no batch
NoBatch ==
    /\ driver = "none"
    /\ input_files = <<>>
    /\ file_index = 0
    /\ success_count = 0
    /\ error_count = 0
    /\ batch_results = <<>>
    /\ writes = <<>>
    /\ history = <<>>

Init ==
    /\ consumed = <<>>
    /\ pc = "loop"
    /\ transaction = EmptyDict
    /\ submitter = EmptyDict
    /\ receiver = EmptyDict
    /\ billing_provider = EmptyDict
    /\ pay_to_provider = EmptyDict
    /\ subscriber = EmptyDict
    /\ payer = EmptyDict
    /\ current_claim = None
    /\ claims_data = <<>>
    /\ temp_addresses = EmptyDict
    /\ current_entity = NoEntity
    /\ heap = <<>>
    /\ results = <<>>
    /\ returned = <<>>
    /\ program = "parse_x12_for_viewer"
    /\ result = EmptyDict
    /\ current_service_lines = <<>>
    /\ NoBatch

\* for segment in reader: the reader delivers `elements`, at most `bound`
\* segments in all
Read(elements, bound) ==
    /\ program = "parse_x12_for_viewer"
    /\ pc = "loop"
    /\ Len(consumed) < bound
    /\ consumed' = Append(consumed, elements)
    /\ pc' = pc
    /\ UNCHANGED <<output, program, translator, batch>>

\* The object a reference names, with the heap h
Deref(h, ref) == h[ref]

\* A new dict object d: the heap after its creation; its reference is NewRef
NewRef(h) == Len(h) + 1
Alloc(h, d) == Append(h, d)

-----------------------------------------------------------------------------
(* Segment handlers: the branches of the if/elif chain *)

HandleISA(elements) ==
    /\ receiver' = Put(Put(receiver, "name", El(elements, 8)), "id", El(elements, 8))
    /\ submitter' = Put(submitter, "name", El(elements, 6))
    /\ UNCHANGED <<transaction, billing_provider, pay_to_provider, subscriber, payer,
                   tracker, claims, heap>>

HandleGS(elements) == UNCHANGED interp

\* HandleST, with the transaction dict made anew
HandleST_new_transaction(elements) ==
    /\ transaction' = [type |-> El(elements, 1), controlNumber |-> El(elements, 2),
                       version |-> El(elements, 3)]
    /\ UNCHANGED <<parties, tracker, claims, heap>>

HandleST(elements) ==
    /\ transaction' = Put(Put(Put(transaction, "type", El(elements, 1)),
                                  "controlNumber", El(elements, 2)),
                              "version", El(elements, 3))
    /\ UNCHANGED <<parties, tracker, claims, heap>>

HandleBHT(elements) ==
    /\ transaction' = Put(Put(Put(Put(transaction, "purpose", El(elements, 1)),
                                      "referenceId", El(elements, 3)),
                                  "date", parse_date(El(elements, 4))),
                              "time", parse_time(El(elements, 5)))
    /\ UNCHANGED <<parties, tracker, claims, heap>>

\* entity_data of the NM1 branch
entity_data(elements) ==
    [name |-> El(elements, 3), firstName |-> El(elements, 4),
     lastName |-> El(elements, 3), id |-> El(elements, 9),
     idQualifier |-> El(elements, 8)]

HandleNM1(elements) ==
    LET entity_code == El(elements, 1)
        ed == entity_data(elements)
    IN CASE entity_code = "41" ->
              /\ current_entity' = "submitter"
              /\ submitter' = Put(Put(submitter, "name", ed.name), "id", ed.id)
              /\ UNCHANGED <<transaction, receiver, billing_provider, pay_to_provider,
                             subscriber, payer, temp_addresses, claims, heap>>
         [] entity_code = "40" ->
              /\ current_entity' = "receiver"
              /\ receiver' = Put(Put(receiver, "name", ed.name), "id", ed.id)
              /\ UNCHANGED <<transaction, submitter, billing_provider, pay_to_provider,
                             subscriber, payer, temp_addresses, claims, heap>>
         [] entity_code = "85" ->
              /\ current_entity' = "billing_provider"
              /\ billing_provider' = Put(Put(Put(billing_provider, "name", ed.name),
                                                 "taxId", ed.id),
                                             "address", NewRef(heap))
              /\ heap' = Alloc(heap, EmptyDict)
              /\ UNCHANGED <<transaction, submitter, receiver, pay_to_provider,
                             subscriber, payer, temp_addresses, claims>>
         [] entity_code = "87" ->
              /\ current_entity' = "pay_to_provider"
              /\ pay_to_provider' = Put(Put(Put(pay_to_provider, "name", ed.name),
                                                "taxId", ed.id),
                                            "address", NewRef(heap))
              /\ heap' = Alloc(heap, EmptyDict)
              /\ UNCHANGED <<transaction, submitter, receiver, billing_provider,
                             subscriber, payer, temp_addresses, claims>>
         [] entity_code = "IL" ->
              /\ current_entity' = "subscriber"
              /\ subscriber' = Put(Put(Put(Put(subscriber, "firstName", ed.firstName),
                                               "lastName", ed.lastName),
                                           "id", ed.id),
                                       "address", NewRef(heap))
              /\ heap' = Alloc(heap, EmptyDict)
              /\ UNCHANGED <<transaction, submitter, receiver, billing_provider,
                             pay_to_provider, payer, temp_addresses, claims>>
         [] entity_code = "PR" ->
              /\ current_entity' = "payer"
              /\ IF Truthy(current_claim)
                 THEN /\ current_claim' = Put(current_claim, "payer",
                                              [name |-> ed.name, payerId |-> ed.id])
                      /\ payer' = payer
                 ELSE /\ payer' = Put(Put(payer, "name", ed.name), "payerId", ed.id)
                      /\ current_claim' = current_claim
              /\ UNCHANGED <<transaction, submitter, receiver, billing_provider,
                             pay_to_provider, subscriber, temp_addresses, claims_data, heap>>
         [] entity_code = "82" ->
              /\ current_entity' = "rendering_provider"
              /\ current_claim' =
                    IF Truthy(current_claim)
                    THEN Put(current_claim, "renderingProvider",
                             [firstName |-> ed.firstName, lastName |-> ed.lastName,
                              npi |-> ed.id])
                    ELSE current_claim
              /\ UNCHANGED <<transaction, parties, temp_addresses, claims_data, heap>>
         [] entity_code = "77" ->
              /\ current_entity' = "service_facility"
              /\ IF Truthy(current_claim)
                 THEN /\ current_claim' = Put(current_claim, "serviceFacility",
                                              [name |-> ed.name, taxId |-> ed.id,
                                               address |-> NewRef(heap)])
                      /\ heap' = Alloc(heap, EmptyDict)
                 ELSE UNCHANGED <<current_claim, heap>>
              /\ UNCHANGED <<transaction, parties, temp_addresses, claims_data>>
         [] OTHER -> UNCHANGED interp

HandleN3(elements) ==
    /\ heap' = Alloc(heap, [street |-> El(elements, 1)])
    /\ temp_addresses' = Put(temp_addresses, current_entity, NewRef(heap))
    /\ UNCHANGED <<transaction, parties, current_entity, claims>>

\* temp_addresses[current_entity].update({'city': .., 'state': .., 'zip': ..})
update_address(h, ref, elements) ==
    [h EXCEPT ![ref] = Put(Put(Put(@, "city", El(elements, 1)),
                                   "state", El(elements, 2)),
                               "zip", El(elements, 3))]

HandleN4(elements) ==
    IF current_entity \in DOMAIN temp_addresses
    THEN LET ref == temp_addresses[current_entity]
         IN /\ heap' = update_address(heap, ref, elements)
            /\ billing_provider' = IF current_entity = "billing_provider"
                                   THEN Put(billing_provider, "address", ref)
                                   ELSE billing_provider
            /\ pay_to_provider' = IF current_entity = "pay_to_provider"
                                  THEN Put(pay_to_provider, "address", ref)
                                  ELSE pay_to_provider
            /\ subscriber' = IF current_entity = "subscriber"
                             THEN Put(subscriber, "address", ref)
                             ELSE subscriber
            /\ current_claim' =
                  IF /\ current_entity = "service_facility"
                     /\ Truthy(current_claim)
                     /\ "serviceFacility" \in DOMAIN current_claim
                  THEN Put(current_claim, "serviceFacility",
                           Put(current_claim["serviceFacility"], "address", ref))
                  ELSE current_claim
            /\ UNCHANGED <<transaction, submitter, receiver, payer, tracker, claims_data>>
    ELSE UNCHANGED interp

HandlePER(elements) ==
    IF current_entity = "submitter"
    THEN /\ submitter' = Put(submitter, "contact",
                             [name |-> El(elements, 2), phone |-> El(elements, 4),
                              extension |-> El(elements, 6)])
         /\ UNCHANGED <<transaction, receiver, billing_provider, pay_to_provider,
                        subscriber, payer, tracker, claims, heap>>
    ELSE UNCHANGED interp

HandleSBR(elements) ==
    /\ subscriber' = Put(Put(Put(subscriber, "relationship",
                                     IF Len(elements) > 2 THEN elements[3] ELSE "self"),
                                 "groupNumber", El(elements, 3)),
                             "planType", El(elements, 5))
    /\ UNCHANGED <<transaction, submitter, receiver, billing_provider, pay_to_provider,
                   payer, tracker, claims, heap>>

\* HandleDMG, without the test of the current entity
HandleDMG_any_entity(elements) ==
    /\ subscriber' = Put(Put(subscriber, "dob", parse_date(El(elements, 2))),
                         "sex", El(elements, 3))
    /\ UNCHANGED <<transaction, submitter, receiver, billing_provider,
                   pay_to_provider, payer, tracker, claims, heap>>

HandleDMG(elements) ==
    IF current_entity = "subscriber"
    THEN /\ subscriber' = Put(Put(subscriber, "dob", parse_date(El(elements, 2))),
                              "sex", El(elements, 3))
         /\ UNCHANGED <<transaction, submitter, receiver, billing_provider,
                        pay_to_provider, payer, tracker, claims, heap>>
    ELSE UNCHANGED interp

\* The claim a CLM segment opens
new_claim(elements) ==
    [id |-> El(elements, 1),
     totalCharge |-> safe_float(El(elements, 2), 0),
     placeOfService |-> "",
     serviceType |-> "",
     indicators |-> [assigned |-> El(elements, 7),
                     providerSignature |-> El(elements, 6),
                     releaseInfo |-> El(elements, 9),
                     patientSignature |-> El(elements, 8),
                     relatedCause |-> ""],
     onsetDate |-> "",
     clearinghouseClaimNumber |-> "",
     diagnosis |-> [primary |-> "", secondary |-> <<>>],
     serviceLines |-> <<>>]

\* seal, with the claim put in front of the sealed ones (insert for append)
seal_in_front(sealed, claim) == IF Truthy(claim) THEN <<claim>> \o sealed ELSE sealed

\* if current_claim: claims_data.append(current_claim)
seal(sealed, claim) == IF Truthy(claim) THEN Append(sealed, claim) ELSE sealed

\* HandleCLM, without sealing the claim that was open
HandleCLM_drops_open_claim(elements) ==
    /\ current_claim' = new_claim(elements)
    /\ UNCHANGED <<transaction, parties, tracker, claims_data, heap>>

\* HandleCLM, unsetting the current entity as well
HandleCLM_resets_entity(elements) ==
    /\ claims_data' = seal(claims_data, current_claim)
    /\ current_claim' = new_claim(elements)
    /\ current_entity' = NoEntity
    /\ UNCHANGED <<transaction, parties, temp_addresses, heap>>

\* HandleCLM, with the new claim taking the payer, rendering provider and
\* service facility of the claim before
HandleCLM_inherits_parties(elements) ==
    /\ claims_data' = seal(claims_data, current_claim)
    /\ current_claim' =
          [k \in DOMAIN new_claim(elements)
                 \cup (DOMAIN current_claim
                          \cap {"payer", "renderingProvider", "serviceFacility"}) |->
              IF k \in DOMAIN new_claim(elements)
              THEN new_claim(elements)[k] ELSE current_claim[k]]
    /\ UNCHANGED <<transaction, parties, tracker, heap>>

HandleCLM(elements) ==
    /\ claims_data' = seal(claims_data, current_claim)
    /\ current_claim' = new_claim(elements)
    /\ UNCHANGED <<transaction, parties, tracker, heap>>

\* for i in range(1, len(elements)): the loop of the HI branch, from index i
RECURSIVE hi_loop(_, _, _)
hi_loop(diagnosis, elements, i) ==
    IF i >= Len(elements) THEN diagnosis
    ELSE IF elements[i + 1] = "" THEN hi_loop(diagnosis, elements, i + 1)
    ELSE LET code == clean_code(elements[i + 1])
         IN IF i = 1
            THEN hi_loop([diagnosis EXCEPT !.primary = code], elements, i + 1)
            ELSE hi_loop([diagnosis EXCEPT !.secondary = Append(@, code)],
                         elements, i + 1)

\* HandleHI, with the secondary list emptied before the loop
HandleHI_clears_secondary(elements) ==
    IF Truthy(current_claim)
    THEN /\ current_claim' = [current_claim EXCEPT
                                 !.diagnosis = hi_loop([@ EXCEPT !.secondary = <<>>],
                                                       elements, 1)]
         /\ UNCHANGED <<transaction, parties, tracker, claims_data, heap>>
    ELSE UNCHANGED interp

HandleHI(elements) ==
    IF Truthy(current_claim)
    THEN /\ current_claim' = [current_claim EXCEPT
                                 !.diagnosis = hi_loop(@, elements, 1)]
         /\ UNCHANGED <<transaction, parties, tracker, claims_data, heap>>
    ELSE UNCHANGED interp

\* current_claim['serviceLines'][-1][key] = value
set_last_line(claim, key, value) ==
    [claim EXCEPT !.serviceLines =
        [@ EXCEPT ![Len(@)] = Put(@, key, value)]]

\* The two DTP branches of the chain: the second one is tried only when the
\* first one's condition (seg_id == 'DTP' and current_claim) is false.
\* dtp_claim, taking 431 alone as the onset qualifier
dtp_claim_431_only(claim, elements) ==
    IF Truthy(claim) /\ El(elements, 1) = "431"
    THEN [claim EXCEPT !.onsetDate = parse_date(El(elements, 3))]
    ELSE claim

dtp_claim(claim, elements) ==
    LET date_qualifier == El(elements, 1)
        date_value == parse_date(El(elements, 3))
    IN IF Truthy(claim)
       THEN IF date_qualifier \in {"431", "454"}
            THEN [claim EXCEPT !.onsetDate = date_value]
            ELSE claim
       ELSE IF Truthy(claim) /\ Truthy(claim.serviceLines)
            THEN IF date_qualifier = "472"
                 THEN set_last_line(claim, "serviceDate", date_value)
                 ELSE claim
            ELSE claim

HandleDTP(elements) ==
    /\ current_claim' = dtp_claim(current_claim, elements)
    /\ UNCHANGED <<transaction, parties, tracker, claims_data, heap>>

HandleREF(elements) ==
    /\ current_claim' =
          IF Truthy(current_claim) /\ El(elements, 1) = "D9"
          THEN [current_claim EXCEPT !.clearinghouseClaimNumber = El(elements, 2)]
          ELSE current_claim
    /\ UNCHANGED <<transaction, parties, tracker, claims_data, heap>>

\* The line an LX segment opens
new_line(elements) ==
    [lineNumber |-> safe_int(El(elements, 1), 0),
     codeQualifier |-> "",
     procedureCode |-> "",
     charge |-> 0,
     unitQualifier |-> "",
     units |-> 0,
     diagnosisPointer |-> "",
     emergencyIndicator |-> "",
     serviceDate |-> ""]

HandleLX(elements) ==
    /\ current_claim' =
          IF Truthy(current_claim)
          THEN [current_claim EXCEPT !.serviceLines = Append(@, new_line(elements))]
          ELSE current_claim
    /\ UNCHANGED <<transaction, parties, tracker, claims_data, heap>>

\* The SV1 branch on the line service_line
sv1_line(service_line, elements) ==
    LET procedure_info == El(elements, 1)
        l1 == IF Contains(procedure_info, ":")
              THEN Put(Put(service_line, "codeQualifier", BeforeFirst(procedure_info, ":")),
                       "procedureCode", SecondPart(procedure_info, ":"))
              ELSE Put(service_line, "procedureCode", procedure_info)
        l2 == Put(Put(Put(l1, "charge", safe_float(El(elements, 2), 0)),
                      "unitQualifier", El(elements, 3)),
                  "units", safe_float(El(elements, 4), 0))
        l3 == IF El(elements, 5) # "" THEN Put(l2, "placeOfService", El(elements, 5))
              ELSE l2
    IN IF El(elements, 7) # "" THEN Put(l3, "diagnosisPointer", El(elements, 7)) ELSE l3

\* sv1_target, taking the first line of the claim (serviceLines[0])
sv1_first_line(claim) == 1

\* The line of the claim an SV1 segment works on: serviceLines[-1]
sv1_target(claim) == Len(claim.serviceLines)

sv1_claim(claim, elements) ==
    LET n == sv1_target(claim)
        c1 == [claim EXCEPT !.serviceLines =
                  [@ EXCEPT ![n] = sv1_line(@, elements)]]
    IN IF El(elements, 5) # "" /\ claim.placeOfService = ""
       THEN [c1 EXCEPT !.placeOfService = El(elements, 5)]
       ELSE c1

\* HandleSV1, with the claim's place of service set before the claim is asked
\* for a line
HandleSV1_unguarded(elements) ==
    /\ current_claim' =
          IF Truthy(current_claim)
          THEN IF Truthy(current_claim.serviceLines)
               THEN sv1_claim(current_claim, elements)
               ELSE [current_claim EXCEPT !.placeOfService = El(elements, 5)]
          ELSE current_claim
    /\ UNCHANGED <<transaction, parties, tracker, claims_data, heap>>

HandleSV1(elements) ==
    /\ current_claim' =
          IF Truthy(current_claim) /\ Truthy(current_claim.serviceLines)
          THEN sv1_claim(current_claim, elements)
          ELSE current_claim
    /\ UNCHANGED <<transaction, parties, tracker, claims_data, heap>>

\* A segment whose tag no branch of the chain handles
HandleOther(elements) == UNCHANGED interp

-----------------------------------------------------------------------------
(* After the loop: the record builder *)

\* if not pay_to_provider.get('name'): pay_to_provider = billing_provider.copy()
\* (a shallow copy: the new dict holds the same address object)
pay_to_default(pay_to, billing) ==
    IF Get(pay_to, "name", "") = "" THEN billing ELSE pay_to

SectionNames ==
    <<"transaction", "submitter", "receiver", "billing_Provider", "Pay_To_provider",
      "subscriber", "payer", "claim", "diagnosis", "renderingProvider",
      "serviceFacility", "service_Lines">>

\* payer_section, with the transaction-level payer whatever the claim holds
payer_section_transaction_only(claim_data) == payer

\* claim_data.get('payer', payer)
payer_section(claim_data) == Get(claim_data, "payer", payer)

\* sections, with an empty record for a claim without a service facility
sections_empty_facility(claim_data, pay_to) ==
    <<[section |-> "transaction", data |-> transaction],
      [section |-> "submitter", data |-> submitter],
      [section |-> "receiver", data |-> receiver],
      [section |-> "billing_Provider", data |-> billing_provider],
      [section |-> "Pay_To_provider", data |-> pay_to],
      [section |-> "subscriber", data |-> subscriber],
      [section |-> "payer", data |-> payer_section(claim_data)],
      [section |-> "claim",
       data |-> [id |-> claim_data.id,
                 totalCharge |-> claim_data.totalCharge,
                 placeOfService |-> claim_data.placeOfService,
                 serviceType |-> claim_data.serviceType,
                 indicators |-> claim_data.indicators,
                 onsetDate |-> claim_data.onsetDate,
                 clearinghouseClaimNumber |-> claim_data.clearinghouseClaimNumber]],
      [section |-> "diagnosis", data |-> claim_data.diagnosis],
      [section |-> "renderingProvider",
       data |-> Get(claim_data, "renderingProvider", EmptyDict)],
      [section |-> "serviceFacility",
       data |-> Get(claim_data, "serviceFacility", EmptyDict)],
      [section |-> "service_Lines", data |-> claim_data.serviceLines]>>

\* The section array of one claim
sections(claim_data, pay_to) ==
    <<[section |-> "transaction", data |-> transaction],
      [section |-> "submitter", data |-> submitter],
      [section |-> "receiver", data |-> receiver],
      [section |-> "billing_Provider", data |-> billing_provider],
      [section |-> "Pay_To_provider", data |-> pay_to],
      [section |-> "subscriber", data |-> subscriber],
      [section |-> "payer", data |-> payer_section(claim_data)],
      [section |-> "claim",
       data |-> [id |-> claim_data.id,
                 totalCharge |-> claim_data.totalCharge,
                 placeOfService |-> claim_data.placeOfService,
                 serviceType |-> claim_data.serviceType,
                 indicators |-> claim_data.indicators,
                 onsetDate |-> claim_data.onsetDate,
                 clearinghouseClaimNumber |-> claim_data.clearinghouseClaimNumber]],
      [section |-> "diagnosis", data |-> claim_data.diagnosis],
      [section |-> "renderingProvider",
       data |-> Get(claim_data, "renderingProvider", EmptyDict)],
      [section |-> "serviceFacility",
       data |-> Get(claim_data, "serviceFacility", billing_provider)],
      [section |-> "service_Lines", data |-> claim_data.serviceLines]>>

\* build_results, with every record built from the first claim
build_results_first_claim(sealed, pay_to) ==
    [k \in 1..Len(sealed) |-> sections(sealed[1], pay_to)]

\* build_results, with a record of the header alone when there is no claim
build_results_header_record(sealed, pay_to) ==
    IF sealed = <<>>
    THEN <<<<[section |-> "transaction", data |-> transaction],
             [section |-> "submitter", data |-> submitter],
             [section |-> "receiver", data |-> receiver],
             [section |-> "billing_Provider", data |-> billing_provider],
             [section |-> "Pay_To_provider", data |-> pay_to],
             [section |-> "subscriber", data |-> subscriber]>>>>
    ELSE [k \in 1..Len(sealed) |-> sections(sealed[k], pay_to)]

\* for claim_data in claims_data: results.append(sections)
build_results(sealed, pay_to) ==
    [k \in 1..Len(sealed) |-> sections(sealed[k], pay_to)]

\* return_value, with the list returned whatever its length
return_always_list(res) == res

\* return results[0] if len(results) == 1 else results
return_value(res) == IF Len(res) = 1 THEN res[1] ELSE res

EndOfStream ==
    /\ program = "parse_x12_for_viewer"
    /\ pc = "loop"
    /\ pc' = "done"
    /\ claims_data' = seal(claims_data, current_claim)
    /\ pay_to_provider' = pay_to_default(pay_to_provider, billing_provider)
    /\ results' = build_results(claims_data', pay_to_provider')
    /\ returned' = return_value(results')
    /\ UNCHANGED <<consumed, transaction, submitter, receiver, billing_provider,
                   subscriber, payer, current_claim, tracker, heap, program,
                   translator, batch>>

-----------------------------------------------------------------------------
(* The loop: one action per branch of the chain, on the segments of S *)

Tagged(S, tag) == {elements \in S : elements[1] = tag}

SegISA(S, bound) == \E elements \in Tagged(S, "ISA") : Read(elements, bound) /\ HandleISA(elements)
SegGS(S, bound) == \E elements \in Tagged(S, "GS") : Read(elements, bound) /\ HandleGS(elements)
SegST(S, bound) == \E elements \in Tagged(S, "ST") : Read(elements, bound) /\ HandleST(elements)
SegBHT(S, bound) == \E elements \in Tagged(S, "BHT") : Read(elements, bound) /\ HandleBHT(elements)
SegNM1(S, bound) == \E elements \in Tagged(S, "NM1") : Read(elements, bound) /\ HandleNM1(elements)
SegN3(S, bound) == \E elements \in Tagged(S, "N3") : Read(elements, bound) /\ HandleN3(elements)
SegN4(S, bound) == \E elements \in Tagged(S, "N4") : Read(elements, bound) /\ HandleN4(elements)
SegPER(S, bound) == \E elements \in Tagged(S, "PER") : Read(elements, bound) /\ HandlePER(elements)
SegSBR(S, bound) == \E elements \in Tagged(S, "SBR") : Read(elements, bound) /\ HandleSBR(elements)
SegDMG(S, bound) == \E elements \in Tagged(S, "DMG") : Read(elements, bound) /\ HandleDMG(elements)
SegCLM(S, bound) == \E elements \in Tagged(S, "CLM") : Read(elements, bound) /\ HandleCLM(elements)
SegHI(S, bound) == \E elements \in Tagged(S, "HI") : Read(elements, bound) /\ HandleHI(elements)
SegDTP(S, bound) == \E elements \in Tagged(S, "DTP") : Read(elements, bound) /\ HandleDTP(elements)
SegREF(S, bound) == \E elements \in Tagged(S, "REF") : Read(elements, bound) /\ HandleREF(elements)
SegLX(S, bound) == \E elements \in Tagged(S, "LX") : Read(elements, bound) /\ HandleLX(elements)
SegSV1(S, bound) == \E elements \in Tagged(S, "SV1") : Read(elements, bound) /\ HandleSV1(elements)
SegOther(S, bound) == \E elements \in Tagged(S, "SE") : Read(elements, bound) /\ HandleOther(elements)

\* One segment of every tag
AllSegments ==
    {<<"ISA", "00", "", "00", "", "ZZ", "SENDER", "ZZ", "RECVR">>,
     <<"GS", "HC">>,
     <<"ST", "837", "0001", "005010X222A1">>,
     <<"BHT", "0019", "00", "REF1", "20240102", "093045">>,
     <<"NM1", "41", "2", "SUBMIT", "", "", "", "", "46", "S1">>,
     <<"NM1", "85", "2", "BILLCO", "", "", "", "", "XX", "B1">>,
     <<"NM1", "IL", "1", "DOE", "JANE", "", "", "", "MI", "M1">>,
     <<"NM1", "77", "2", "FACIL", "", "", "", "", "XX", "F1">>,
     <<"N3", "1 MAIN ST">>,
     <<"N4", "TOWN", "TX", "75001">>,
     <<"PER", "IC", "ANN", "TE", "5551234">>,
     <<"SBR", "P", "18", "GRP1", "", "CI">>,
     <<"DMG", "D8", "19800115", "F">>,
     <<"CLM", "A", "100">>,
     <<"HI", "ABK:K0230", "K0231">>,
     <<"DTP", "431", "D8", "20240105">>,
     <<"REF", "D9", "CH1">>,
     <<"LX", "1">>,
     <<"SV1", "HC:99213", "75.5", "UN", "1", "11", "", "1">>,
     <<"SE", "10", "0001">>}

Next ==
    \/ SegISA(AllSegments, MaxStream)
    \/ SegGS(AllSegments, MaxStream)
    \/ SegST(AllSegments, MaxStream)
    \/ SegBHT(AllSegments, MaxStream)
    \/ SegNM1(AllSegments, MaxStream)
    \/ SegN3(AllSegments, MaxStream)
    \/ SegN4(AllSegments, MaxStream)
    \/ SegPER(AllSegments, MaxStream)
    \/ SegSBR(AllSegments, MaxStream)
    \/ SegDMG(AllSegments, MaxStream)
    \/ SegCLM(AllSegments, MaxStream)
    \/ SegHI(AllSegments, MaxStream)
    \/ SegDTP(AllSegments, MaxStream)
    \/ SegREF(AllSegments, MaxStream)
    \/ SegLX(AllSegments, MaxStream)
    \/ SegSV1(AllSegments, MaxStream)
    \/ SegOther(AllSegments, MaxStream)
    \/ EndOfStream

Spec == Init /\ [][Next]_vars

-----------------------------------------------------------------------------
(* Streams of the claim accumulator: claims, lines, line details, dates *)

LineSegments ==
    {<<"CLM", "A", "100">>,
     <<"CLM", "B", "12x">>,
     <<"LX", "1">>,
     <<"LX", "2">>,
     <<"SV1", "HC:99213", "75.5", "UN", "1", "11", "", "1">>,
     <<"SV1", "99214", "40">>,
     <<"DTP", "472", "D8", "20240105">>,
     <<"DTP", "431", "D8", "20231231">>}

NextLines ==
    \/ SegCLM(LineSegments, MaxLines)
    \/ SegLX(LineSegments, MaxLines)
    \/ SegSV1(LineSegments, MaxLines)
    \/ SegDTP(LineSegments, MaxLines)
    \/ EndOfStream

SpecLines == Init /\ [][NextLines]_vars

(* Streams of diagnosis segments *)

DiagSegments ==
    {<<"CLM", "A", "100">>,
     <<"CLM", "B", "50">>,
     <<"HI", "ABK:K0230", "K0231">>,
     <<"HI", "", "ABF:J10">>,
     <<"HI", "ABK:E119", "", "ABF:I10">>}

NextDiag ==
    \/ SegCLM(DiagSegments, MaxDiag)
    \/ SegHI(DiagSegments, MaxDiag)
    \/ EndOfStream

SpecDiag == Init /\ [][NextDiag]_vars

(* Streams of provider introductions, addresses and claims *)

PartySegments ==
    {<<"NM1", "85", "2", "BILLCO", "", "", "", "", "XX", "B1">>,
     <<"NM1", "87", "2", "PAYTO", "", "", "", "", "XX", "P1">>,
     <<"NM1", "87", "2", "", "", "", "", "", "XX", "P2">>,
     <<"N3", "1 MAIN ST">>,
     <<"N4", "TOWN", "TX", "75001">>,
     <<"CLM", "A", "100">>}

NextParty ==
    \/ SegNM1(PartySegments, MaxParty)
    \/ SegN3(PartySegments, MaxParty)
    \/ SegN4(PartySegments, MaxParty)
    \/ SegCLM(PartySegments, MaxParty)
    \/ EndOfStream

SpecParty == Init /\ [][NextParty]_vars

(* Streams of headers, transaction-level parties, claims and lines *)

RecordSegments ==
    {<<"ISA", "00", "", "00", "", "ZZ", "SENDER", "ZZ", "RECVR">>,
     <<"ST", "837", "0001", "005010X222A1">>,
     <<"NM1", "41", "2", "SUBMIT", "", "", "", "", "46", "S1">>,
     <<"NM1", "85", "2", "BILLCO", "", "", "", "", "XX", "B1">>,
     <<"NM1", "IL", "1", "DOE", "JANE", "", "", "", "MI", "M1">>,
     <<"CLM", "A", "100">>,
     <<"CLM", "B", "50.25">>,
     <<"LX", "1">>}

NextRecord ==
    \/ SegISA(RecordSegments, MaxRecord)
    \/ SegST(RecordSegments, MaxRecord)
    \/ SegNM1(RecordSegments, MaxRecord)
    \/ SegCLM(RecordSegments, MaxRecord)
    \/ SegLX(RecordSegments, MaxRecord)
    \/ EndOfStream

SpecRecord == Init /\ [][NextRecord]_vars

(* Streams of claims with a service facility and its address *)

SealSegments ==
    {<<"CLM", "A", "100">>,
     <<"NM1", "77", "2", "FACIL", "", "", "", "", "XX", "F1">>,
     <<"N3", "1 MAIN ST">>,
     <<"N4", "TOWN", "TX", "75001">>,
     <<"N4", "CITY2", "CA", "90001">>,
     <<"LX", "1">>}

NextSeal ==
    \/ SegCLM(SealSegments, MaxSeal)
    \/ SegNM1(SealSegments, MaxSeal)
    \/ SegN3(SealSegments, MaxSeal)
    \/ SegN4(SealSegments, MaxSeal)
    \/ SegLX(SealSegments, MaxSeal)
    \/ EndOfStream

SpecSeal == Init /\ [][NextSeal]_vars

\* What the encoder (json.dump) writes for a party record or a claim: the
\* address reference replaced by the address dict it names
party_view(h, party) ==
    IF "address" \in DOMAIN party
    THEN Put(party, "address", Deref(h, party["address"]))
    ELSE party

claim_view(h, claim) ==
    IF "serviceFacility" \in DOMAIN claim
    THEN Put(claim, "serviceFacility", party_view(h, claim["serviceFacility"]))
    ELSE claim

-----------------------------------------------------------------------------
(* Observations of the stream, used by the properties below *)

IsCLM(elements) == elements[1] = "CLM"
IsLX(elements) == elements[1] = "LX"

\* The CLM segments of a stream, in order
CLMsOf(stream) == SelectSeq(stream, IsCLM)

\* The segment read by the step just taken, when the step read one
ReadStep(tag) ==
    /\ Len(consumed') = Len(consumed) + 1
    /\ consumed'[Len(consumed')][1] = tag

LastRead == consumed'[Len(consumed')]

\* The positions of the CLM segments in a stream
CLMPositions(stream) == {p \in 1..Len(stream) : IsCLM(stream[p])}

\* Position of the k-th CLM segment of a stream
KthCLM(stream, k) ==
    CHOOSE p \in CLMPositions(stream) :
        Cardinality({q \in CLMPositions(stream) : q <= p}) = k

\* The segments that follow the k-th CLM segment, up to the next CLM segment
\* or the end of the stream
ClaimSlice(stream, k) ==
    LET from == KthCLM(stream, k)
        later == {q \in CLMPositions(stream) : q > from}
        to == IF later = {} THEN Len(stream)
              ELSE (CHOOSE q \in later : \A r \in later : q <= r) - 1
    IN SubSeq(stream, from + 1, to)

\* The line numbers a slice's LX segments announce
SliceLineNumbers(slice) ==
    LET lx == SelectSeq(slice, IsLX)
    IN [i \in 1..Len(lx) |-> safe_int(El(lx[i], 1), 0)]

LineNumbers(lines) == [i \in 1..Len(lines) |-> lines[i].lineNumber]

\* All claims so far, the open one last
AllClaims == seal(claims_data, IF pc = "loop" THEN current_claim ELSE None)

-----------------------------------------------------------------------------
(* C1: when the function has returned, the sealed claims are as many as the *)
(* CLM segments of the stream, so are the output records, and the k-th     *)
(* sealed claim carries the id (element 1) of the k-th CLM segment.        *)
C1_SealedClaimsMatchCLM ==
    pc = "done" =>
        /\ Len(claims_data) = Len(CLMsOf(consumed))
        /\ Len(results) = Len(CLMsOf(consumed))
        /\ \A k \in 1..Len(claims_data) :
              /\ claims_data[k].id = El(CLMsOf(consumed)[k], 1)
              /\ results[k][8].data.id = El(CLMsOf(consumed)[k], 1)

C1_Witness ==
    /\ pc = "done"
    /\ Len(claims_data) = 3
    /\ claims_data[1].id = "B"
    /\ claims_data[2].id = "A"
    /\ claims_data[3].id = "B"

(* C2: once a claim is sealed, no later step changes any of its data, the  *)
(* service-facility address included.                                      *)
C2_SealedClaimNeverChanges ==
    [][\A k \in 1..Len(claims_data) :
          /\ Len(claims_data') >= k
          /\ claim_view(heap', claims_data'[k]) = claim_view(heap, claims_data[k])]_vars

(* C3: a DTP segment with qualifier 472 read while a claim is open sets    *)
(* the serviceDate of the claim's last service line to the parsed date     *)
(* when the claim has a line, and changes nothing when it has none.        *)
C3_ServiceDateOnLastLine ==
    [][(ReadStep("DTP") /\ El(LastRead, 1) = "472" /\ Truthy(current_claim)) =>
          IF Truthy(current_claim.serviceLines)
          THEN LET n == Len(current_claim.serviceLines)
               IN /\ Len(current_claim'.serviceLines) = n
                  /\ current_claim'.serviceLines[n].serviceDate
                        = parse_date(El(LastRead, 3))
          ELSE UNCHANGED interp]_vars

(* C4: the line numbers of every claim, sealed or open, are those of the   *)
(* LX segments read while it was open, in order, and so are the lines of   *)
(* its output record; a step reading SV1 changes no sealed claim and no    *)
(* line of the open claim but the last one.                                *)
C4_LinesInOrder ==
    /\ Len(AllClaims) = Len(CLMsOf(consumed))
    /\ \A k \in 1..Len(AllClaims) :
          LineNumbers(AllClaims[k].serviceLines)
              = SliceLineNumbers(ClaimSlice(consumed, k))
    /\ pc = "done" =>
          \A k \in 1..Len(results) :
              LineNumbers(results[k][12].data)
                  = SliceLineNumbers(ClaimSlice(consumed, k))

C4_SV1OnlyLastLine ==
    ReadStep("SV1") =>
        /\ claims_data' = claims_data
        /\ Truthy(current_claim) = Truthy(current_claim')
        /\ Truthy(current_claim) =>
              /\ Len(current_claim'.serviceLines) = Len(current_claim.serviceLines)
              /\ \A i \in 1..(Len(current_claim.serviceLines) - 1) :
                    current_claim'.serviceLines[i] = current_claim.serviceLines[i]

C5_SV1WithoutLineIsNoOp ==
    [][(/\ ReadStep("SV1")
        /\ ~Truthy(current_claim) \/ ~Truthy(current_claim.serviceLines))
          => /\ UNCHANGED interp
             /\ UNCHANGED output
             /\ pc' = "loop"]_vars

C5_Witness ==
    /\ pc = "loop"
    /\ Len(consumed) > 0
    /\ consumed[Len(consumed)][1] = "SV1"
    /\ Len(claims_data) = 1
    /\ Truthy(claims_data[1].serviceLines)
    /\ Truthy(current_claim)
    /\ ~Truthy(current_claim.serviceLines)


NonEmpty(s) == s # ""

\* The non-empty elements of a segment from Python index i on, each cleaned
\* by clean_code
CodesFrom(elements, i) ==
    LET ne == SelectSeq(SubSeq(elements, i + 1, Len(elements)), NonEmpty)
    IN [j \in 1..Len(ne) |-> clean_code(ne[j])]

(* C6, as stated: on an HI segment read while a claim is open, the first   *)
(* non-empty element after the tag becomes the primary diagnosis and the   *)
(* later non-empty ones are appended to the secondary list.                *)
C6_FirstNonEmptyIsPrimary ==
    [][(ReadStep("HI") /\ Truthy(current_claim) /\ CodesFrom(LastRead, 1) # <<>>) =>
          /\ current_claim'.diagnosis.primary = Head(CodesFrom(LastRead, 1))
          /\ current_claim'.diagnosis.secondary
                = current_claim.diagnosis.secondary \o Tail(CodesFrom(LastRead, 1))]_vars

(* C6, amended: on an HI segment read while a claim is open, element 1,    *)
(* when non-empty, becomes the primary diagnosis (an empty element 1       *)
(* leaves the primary as it was) and every non-empty element at position 2 *)
(* or later is appended to the secondary list in order, each with its      *)
(* qualifier prefix removed; [_, "ABK:K0230", "K0231"] gives primary       *)
(* "K0230" and appends "K0231".                                            *)
C6_Element1IsPrimary ==
    [][(ReadStep("HI") /\ Truthy(current_claim)) =>
          /\ current_claim'.diagnosis.primary
                = IF El(LastRead, 1) # "" THEN clean_code(El(LastRead, 1))
                  ELSE current_claim.diagnosis.primary
          /\ current_claim'.diagnosis.secondary
                = current_claim.diagnosis.secondary \o CodesFrom(LastRead, 2)
          /\ LastRead = <<"HI", "ABK:K0230", "K0231">> =>
                /\ current_claim'.diagnosis.primary = "K0230"
                /\ current_claim'.diagnosis.secondary
                      = Append(current_claim.diagnosis.secondary, "K0231")]_vars

C6_Witness ==
    /\ pc = "loop"
    /\ Truthy(current_claim)
    /\ consumed[Len(consumed)] = <<"HI", "ABK:K0230", "K0231">>
    /\ current_claim.diagnosis.primary = "K0230"
    /\ current_claim.diagnosis.secondary = <<"J10", "K0231">>

\* The positions of the NM1 segments with a given entity code
NM1Positions(stream, code) ==
    {p \in 1..Len(stream) : stream[p][1] = "NM1" /\ El(stream[p], 1) = code}

LastNM1(stream, code) ==
    stream[CHOOSE p \in NM1Positions(stream, code) :
               \A q \in NM1Positions(stream, code) : q <= p]

(* C7: with no NM1*87 in the stream, the pay-to record of the output is    *)
(* equal in content to the billing-provider record and shares no mutable   *)
(* part with it: changing a field of the billing provider's address leaves *)
(* the pay-to record as it was.                                            *)
C7_PayToDefaultDecoupled ==
    (pc = "done" /\ NM1Positions(consumed, "87") = {}) =>
        /\ party_view(heap, pay_to_provider) = party_view(heap, billing_provider)
        /\ \A k \in 1..Len(results) : results[k][5].data = pay_to_provider
        /\ "address" \in DOMAIN billing_provider =>
              LET changed == [heap EXCEPT ![billing_provider["address"]] =
                                 Put(@, "city", "ELSEWHERE")]
              IN party_view(changed, pay_to_provider) = party_view(heap, pay_to_provider)

(* C8: whenever an NM1*87 segment was read, the pay-to record of the       *)
(* output is the party it introduced (the name and id of the last NM1*87), *)
(* whatever its elements.                                                  *)
C8_ExplicitPayToKept ==
    (pc = "done" /\ NM1Positions(consumed, "87") # {}) =>
        /\ Get(pay_to_provider, "name", "absent") = El(LastNM1(consumed, "87"), 3)
        /\ Get(pay_to_provider, "taxId", "absent") = El(LastNM1(consumed, "87"), 9)
        /\ \A k \in 1..Len(results) : results[k][5].data = pay_to_provider

SectionsOf(record) == [i \in 1..Len(record) |-> record[i].section]

(* C9: the value returned is the single section array when exactly one     *)
(* claim was sealed; with two or more it is the sequence of the section    *)
(* arrays, one per claim in claim order, all with the same section names.  *)
C9_ReturnShape ==
    pc = "done" =>
        /\ Len(claims_data) = 1 =>
              /\ Len(returned) = Len(SectionNames)
              /\ SectionsOf(returned) = SectionNames
              /\ returned[8].data.id = claims_data[1].id
        /\ Len(claims_data) >= 2 =>
              /\ Len(returned) = Len(claims_data)
              /\ \A k \in 1..Len(returned) :
                    /\ SectionsOf(returned[k]) = SectionNames
                    /\ returned[k][8].data.id = El(CLMsOf(consumed)[k], 1)

C9_Witness ==
    /\ pc = "done"
    /\ Len(claims_data) = 2
    /\ Len(returned) = 2
    /\ returned[1][8].data.id = "B"
    /\ returned[2][8].data.id = "A"
    /\ Len(returned[2][12].data) = 2

TagPositions(stream, tag) == {p \in 1..Len(stream) : stream[p][1] = tag}

LastTagged(stream, tag) ==
    stream[CHOOSE p \in TagPositions(stream, tag) :
               \A q \in TagPositions(stream, tag) : q <= p]

(* C10: with two or more CLM segments, every output record carries the     *)
(* transaction, submitter, receiver, billing-provider, pay-to and          *)
(* subscriber data held at end of stream (those of the last ST, the last   *)
(* ISA and the last NM1 of each role), and its claim, diagnosis and        *)
(* service-line sections are those of its own claim: the k-th CLM and the  *)
(* LX segments read while that claim was open.                             *)
C10_SharedHeaderOwnClaim ==
    (pc = "done" /\ Len(CLMsOf(consumed)) >= 2) =>
        /\ Len(results) = Len(CLMsOf(consumed))
        /\ \A k \in 1..Len(results) :
              /\ results[k][1].data = transaction
              /\ results[k][2].data = submitter
              /\ results[k][3].data = receiver
              /\ results[k][4].data = billing_provider
              /\ results[k][5].data = pay_to_provider
              /\ results[k][6].data = subscriber
              /\ results[k][8].data.id = El(CLMsOf(consumed)[k], 1)
              /\ results[k][8].data.totalCharge
                    = safe_float(El(CLMsOf(consumed)[k], 2), 0)
              /\ results[k][9].data = claims_data[k].diagnosis
              /\ results[k][12].data = claims_data[k].serviceLines
              /\ LineNumbers(results[k][12].data)
                    = SliceLineNumbers(ClaimSlice(consumed, k))
        /\ TagPositions(consumed, "ST") # {} =>
              transaction["type"] = El(LastTagged(consumed, "ST"), 1)
        /\ NM1Positions(consumed, "85") # {} =>
              billing_provider["name"] = El(LastNM1(consumed, "85"), 3)
        /\ NM1Positions(consumed, "IL") # {} =>
              subscriber["lastName"] = El(LastNM1(consumed, "IL"), 3)
        /\ NM1Positions(consumed, "41") # {} =>
              submitter["id"] = El(LastNM1(consumed, "41"), 9)
        /\ TagPositions(consumed, "ISA") # {} =>
              receiver["name"] = El(LastTagged(consumed, "ISA"), 8)

C10_Witness ==
    /\ pc = "done"
    /\ Len(results) = 2
    /\ results[1][8].data.id = "A"
    /\ results[2][8].data.id = "B"
    /\ Len(results[1][12].data) = 1
    /\ Len(results[2][12].data) = 0
    /\ results[1][4].data = results[2][4].data
    /\ Get(results[1][4].data, "name", "") = "BILLCO"
    /\ Get(results[1][1].data, "type", "") = "837"
    /\ consumed[1] = <<"CLM", "A", "100">>

-----------------------------------------------------------------------------
(* Streams of payer introductions and claims *)

PayerSegments ==
    {<<"NM1", "PR", "2", "PAYER1", "", "", "", "", "PI", "PY1">>,
     <<"NM1", "PR", "2", "PAYER2", "", "", "", "", "PI", "PY2">>,
     <<"CLM", "A", "100">>,
     <<"CLM", "B", "50">>}

NextPayer ==
    \/ SegNM1(PayerSegments, MaxPayer)
    \/ SegCLM(PayerSegments, MaxPayer)
    \/ EndOfStream

SpecPayer == Init /\ [][NextPayer]_vars

\* The payer a stream of segments introduces last, as a payer record; none
\* when the stream has no NM1*PR
PayerOf(stream, none) ==
    IF NM1Positions(stream, "PR") = {} THEN none
    ELSE [name |-> El(LastNM1(stream, "PR"), 3),
          payerId |-> El(LastNM1(stream, "PR"), 9)]

\* The segments read before the first CLM segment
BeforeClaims(stream) ==
    IF CLMPositions(stream) = {} THEN stream
    ELSE SubSeq(stream, 1, KthCLM(stream, 1) - 1)

(* C11: an NM1*PR read while a claim is open is stored on that claim and   *)
(* leaves the transaction-level payer as it was; one read while no claim   *)
(* is open is stored in the transaction-level payer; in the output the     *)
(* payer section of a claim is the payer introduced last while the claim   *)
(* was open and, when none was, the transaction-level payer.               *)
C11_PayerStored ==
    (ReadStep("NM1") /\ El(LastRead, 1) = "PR") =>
        IF Truthy(current_claim)
        THEN /\ current_claim'["payer"]
                   = [name |-> El(LastRead, 3), payerId |-> El(LastRead, 9)]
             /\ payer' = payer
             /\ claims_data' = claims_data
        ELSE /\ payer' = [name |-> El(LastRead, 3), payerId |-> El(LastRead, 9)]
             /\ current_claim' = current_claim

C11_PayerSection ==
    pc = "done" =>
        /\ payer = PayerOf(BeforeClaims(consumed), EmptyDict)
        /\ \A k \in 1..Len(results) :
              /\ results[k][7].section = "payer"
              /\ results[k][7].data = PayerOf(ClaimSlice(consumed, k), payer)
              /\ results[k][7].data
                    = IF "payer" \in DOMAIN claims_data[k]
                      THEN claims_data[k]["payer"] ELSE payer

C11_ClaimScopedPayer == [] C11_PayerSection /\ [][C11_PayerStored]_vars

C11_Witness ==
    /\ pc = "done"
    /\ Len(results) = 2
    /\ payer = [name |-> "PAYER1", payerId |-> "PY1"]
    /\ results[1][7].data = [name |-> "PAYER2", payerId |-> "PY2"]
    /\ results[2][7].data = payer

-----------------------------------------------------------------------------
(* Streams of entity introductions and their dependent segments *)

EntitySegments ==
    {<<"NM1", "41", "2", "SUBMIT", "", "", "", "", "46", "S1">>,
     <<"NM1", "IL", "1", "DOE", "JANE", "", "", "", "MI", "M1">>,
     <<"NM1", "QC", "1", "DOE", "KID">>,
     <<"N3", "9 OAK AVE">>,
     <<"N4", "TOWN", "TX", "75001">>,
     <<"PER", "IC", "ANN", "TE", "5551234">>,
     <<"DMG", "D8", "20100412", "M">>}

NextEntity ==
    \/ SegNM1(EntitySegments, MaxEntity)
    \/ SegN3(EntitySegments, MaxEntity)
    \/ SegN4(EntitySegments, MaxEntity)
    \/ SegPER(EntitySegments, MaxEntity)
    \/ SegDMG(EntitySegments, MaxEntity)
    \/ EndOfStream

SpecEntity == Init /\ [][NextEntity]_vars

\* The entity codes the NM1 branch routes
RoleCodes == {"41", "40", "85", "87", "IL", "PR", "82", "77"}

\* The role the NM1 branch gives an entity code
RoleOf(code) ==
    CASE code = "41" -> "submitter"
      [] code = "40" -> "receiver"
      [] code = "85" -> "billing_provider"
      [] code = "87" -> "pay_to_provider"
      [] code = "IL" -> "subscriber"
      [] code = "PR" -> "payer"
      [] code = "82" -> "rendering_provider"
      [] code = "77" -> "service_facility"
      [] OTHER -> NoEntity

\* The party records and the claims as the encoder writes them
PartyViews ==
    [submitter |-> party_view(heap, submitter),
     receiver |-> party_view(heap, receiver),
     billing_provider |-> party_view(heap, billing_provider),
     pay_to_provider |-> party_view(heap, pay_to_provider),
     subscriber |-> party_view(heap, subscriber),
     payer |-> party_view(heap, payer)]

ClaimViews == [k \in 1..Len(AllClaims) |-> claim_view(heap, AllClaims[k])]

\* A step that reads a dependent segment
DependentStep ==
    ReadStep("N3") \/ ReadStep("N4") \/ ReadStep("PER") \/ ReadStep("DMG")

(* C12: after an NM1 segment whose entity code is not in the role table,   *)
(* the N3, N4, PER and DMG segments that follow, up to the next NM1, change *)
(* no party record (the current role being unset).                         *)
C12_UnrecognizedDropsDependents ==
    [][(/\ DependentStep
        /\ TagPositions(consumed, "NM1") # {}
        /\ El(LastTagged(consumed, "NM1"), 1) \notin RoleCodes)
          => /\ PartyViews' = PartyViews
             /\ ClaimViews' = ClaimViews]_vars

-----------------------------------------------------------------------------
(* Streams that introduce a service facility in more than one claim *)

FacilitySegments ==
    {<<"CLM", "A", "100">>,
     <<"NM1", "77", "2", "FACIL", "", "", "", "", "XX", "F1">>,
     <<"N3", "1 MAIN ST">>,
     <<"N4", "TOWN", "TX", "75001">>,
     <<"N4", "CITY2", "CA", "90001">>}

NextFacility ==
    \/ SegCLM(FacilitySegments, MaxFacility)
    \/ SegNM1(FacilitySegments, MaxFacility)
    \/ SegN3(FacilitySegments, MaxFacility)
    \/ SegN4(FacilitySegments, MaxFacility)
    \/ EndOfStream

SpecFacility == Init /\ [][NextFacility]_vars

\* Positions of the NM1 segments with a routed entity code
RecognizedNM1(stream) ==
    {i \in TagPositions(stream, "NM1") : El(stream[i], 1) \in RoleCodes}

LastRecognized(stream) ==
    CHOOSE i \in RecognizedNM1(stream) : \A j \in RecognizedNM1(stream) : j <= i

\* The number of the claim open at a position of the stream (0: none)
ClaimAt(stream, i) == Cardinality({j \in CLMPositions(stream) : j < i})

(* C13: a dependent segment (N3, N4, PER, DMG) can change only the record  *)
(* of the role set by the most recent recognized NM1, and of two            *)
(* introductions of one role only the record created by the later one: a    *)
(* transaction-level record changes only when it is that role's, a claim    *)
(* changes only when the role is the service facility and the introduction  *)
(* was read in that very claim.                                             *)
C13_OnlyLatestIntroduction ==
    [][(DependentStep /\ RecognizedNM1(consumed) # {}) =>
        LET last == LastRecognized(consumed)
            role == RoleOf(El(consumed[last], 1))
        IN /\ \A p \in DOMAIN PartyViews :
                 PartyViews'[p] # PartyViews[p] => role = p
           /\ \A k \in 1..Len(AllClaims) :
                 ClaimViews'[k] # ClaimViews[k]
                    => /\ role = "service_facility"
                       /\ k = ClaimAt(consumed, last)]_vars

-----------------------------------------------------------------------------
(* Streams that introduce every role holding an address, a contact or      *)
(* demographics                                                            *)

RolesSegments ==
    {<<"NM1", "41", "2", "SUBMIT", "", "", "", "", "46", "S1">>,
     <<"NM1", "85", "2", "BILLCO", "", "", "", "", "XX", "B1">>,
     <<"NM1", "87", "2", "PAYTO", "", "", "", "", "XX", "P1">>,
     <<"NM1", "IL", "1", "DOE", "JANE", "", "", "", "MI", "M1">>,
     <<"NM1", "77", "2", "FACIL", "", "", "", "", "XX", "F1">>,
     <<"CLM", "A", "100">>,
     <<"N3", "1 MAIN ST">>,
     <<"N4", "TOWN", "TX", "75001">>,
     <<"PER", "IC", "ANN", "TE", "5551234">>,
     <<"DMG", "D8", "19800115", "F">>}

NextRoles ==
    \/ SegNM1(RolesSegments, MaxRoles)
    \/ SegCLM(RolesSegments, MaxRoles)
    \/ SegN3(RolesSegments, MaxRoles)
    \/ SegN4(RolesSegments, MaxRoles)
    \/ SegPER(RolesSegments, MaxRoles)
    \/ SegDMG(RolesSegments, MaxRoles)
    \/ EndOfStream

SpecRoles == Init /\ [][NextRoles]_vars

\* The address, contact and demographics fields of a party record
DependentFields == {"address", "contact", "dob", "sex"}

DependentData(record) ==
    [f \in DOMAIN record \cap DependentFields |-> record[f]]

\* The same fields of the service facility of the k-th claim
FacilityData(views, k) ==
    IF k <= Len(views) /\ "serviceFacility" \in DOMAIN views[k]
    THEN DependentData(views[k]["serviceFacility"])
    ELSE EmptyDict

\* A step changes these fields only of the party whose role is the current
\* entity when the step ends
OnlyCurrentEntityChanges ==
    /\ \A p \in DOMAIN PartyViews :
          DependentData(PartyViews'[p]) # DependentData(PartyViews[p])
             => current_entity' = p
    /\ \A k \in 1..Len(ClaimViews') :
          FacilityData(ClaimViews', k) # FacilityData(ClaimViews, k)
             => current_entity' = "service_facility"

\* A step that consumes a segment
SegmentStep == Len(consumed') = Len(consumed) + 1

(* C14, as stated: no step changes the address, contact or demographics    *)
(* fields of a party record unless that party's role is the current        *)
(* entity.                                                                 *)
C14_EveryStepCurrentEntity == [][OnlyCurrentEntityChanges]_vars

(* C14, amended: a step that consumes a segment changes the address,       *)
(* contact and demographics fields of a party record (a transaction-level  *)
(* party, a claim's service facility) only when that party's role is the   *)
(* current entity at the end of the step.                                  *)
C14_SegmentStepCurrentEntity ==
    [][SegmentStep => OnlyCurrentEntityChanges]_vars

\* NM1*IL, N3, N4, DMG: the subscriber, being the current entity, has its
\* address and its demographics set
C14_Witness ==
    /\ Len(consumed) = 4
    /\ consumed[4][1] = "DMG"
    /\ current_entity = "subscriber"
    /\ DependentData(PartyViews["subscriber"])
         = [address |-> [street |-> "1 MAIN ST", city |-> "TOWN", state |-> "TX",
                         zip |-> "75001"],
            dob |-> "1980-01-15", sex |-> "F"]
-----------------------------------------------------------------------------
\* The street of the address of a record, "" when it has none
StreetOf(record) == Get(Get(record, "address", EmptyDict), "street", "")

\* No N3 segment was read after the most recent recognized NM1
NoN3SinceIntroduction(stream) ==
    /\ RecognizedNM1(stream) # {}
    /\ \A i \in TagPositions(stream, "N3") : i < LastRecognized(stream)

(* C15: an N4 segment applies to the current party only an address begun   *)
(* by an N3 read after that party's most recent introduction: when no N3   *)
(* was read since, the record of the current party has no street after the *)
(* N4 (none left from an earlier introduction of the role or from an       *)
(* earlier claim).                                                         *)
C15_N4UsesFreshN3Only ==
    [][(ReadStep("N4") /\ NoN3SinceIntroduction(consumed)) =>
        /\ \A p \in DOMAIN PartyViews :
              current_entity = p => StreetOf(PartyViews'[p]) = ""
        /\ (current_entity = "service_facility" /\ Len(ClaimViews') > 0)
              => Get(Get(FacilityData(ClaimViews', Len(ClaimViews')),
                         "address", EmptyDict), "street", "") = ""]_vars

-----------------------------------------------------------------------------
\* The current-entity tracker: the current role and the pending addresses
TrackerView ==
    <<current_entity,
      [r \in DOMAIN temp_addresses |-> Deref(heap, temp_addresses[r])]>>

\* The in-progress claim
InProgressView == claim_view(heap, current_claim)

\* The state parts a step changes
ChangedParts ==
    (IF transaction' # transaction THEN {"transaction header"} ELSE {})
    \cup (IF PartyViews' # PartyViews THEN {"party record"} ELSE {})
    \cup (IF TrackerView' # TrackerView THEN {"tracker"} ELSE {})
    \cup (IF InProgressView' # InProgressView THEN {"in-progress claim"} ELSE {})

-----------------------------------------------------------------------------
(* Streams of DTP segments of several qualifiers, in and out of a claim *)

DatesSegments ==
    {<<"CLM", "A", "100">>,
     <<"LX", "1">>,
     <<"DTP", "431", "D8", "20231231">>,
     <<"DTP", "454", "D8", "20240102">>,
     <<"DTP", "435", "D8", "20240103">>,
     <<"DTP", "472", "D8", "20240105">>,
     <<"DTP", "431", "D8", "2401">>}

NextDates ==
    \/ SegCLM(DatesSegments, MaxDates)
    \/ SegLX(DatesSegments, MaxDates)
    \/ SegDTP(DatesSegments, MaxDates)
    \/ EndOfStream

SpecDates == Init /\ [][NextDates]_vars

(* C17: a DTP segment read while a claim is open sets the claim's          *)
(* onsetDate to the parsed date when its qualifier is 431 or 454 and       *)
(* changes nothing else; a DTP of a qualifier other than 431, 454 and 472, *)
(* or any DTP read with no claim open, leaves the state unchanged; in all  *)
(* cases the loop goes on (no error).                                      *)
C17_OnsetDate ==
    [][ReadStep("DTP") =>
        LET date_qualifier == El(LastRead, 1)
        IN /\ pc' = "loop"
           /\ (Truthy(current_claim) /\ date_qualifier \in {"431", "454"})
                 => /\ current_claim' =
                          [current_claim EXCEPT !.onsetDate = parse_date(El(LastRead, 3))]
                    /\ UNCHANGED <<transaction, parties, tracker, claims_data, heap, output>>
           /\ (Truthy(current_claim) /\ LastRead = <<"DTP", "454", "D8", "20240102">>)
                 => current_claim'.onsetDate = "2024-01-02"
           /\ (Truthy(current_claim) /\ LastRead = <<"DTP", "431", "D8", "2401">>)
                 => current_claim'.onsetDate = "2401"
           /\ (~Truthy(current_claim) \/ date_qualifier \notin {"431", "454", "472"})
                 => UNCHANGED <<interp, output>>]_vars

\* CLM, DTP*431, DTP*454: the second onset date has replaced the first
C17_Witness ==
    /\ Len(consumed) = 3
    /\ consumed[2] = <<"DTP", "431", "D8", "20231231">>
    /\ consumed[3] = <<"DTP", "454", "D8", "20240102">>
    /\ Truthy(current_claim)
    /\ current_claim.onsetDate = "2024-01-02"

-----------------------------------------------------------------------------
(* Streams of BHT segments: parse_date and parse_time on inputs of every   *)
(* length and shape                                                        *)

DateInputs ==
    {"", "2024", "2024010", "20240105", "202401055", "2024-01-05",
     "2024-1-5", "ABCDEFGH", "01/05/24"}

TimeInputs == {"", "9", "093", "0930", "09304", "093045", "ab:cd"}

HeaderSegments ==
    {<<"BHT", "0019", "00", "REF1", d, "0930">> : d \in DateInputs}
    \cup {<<"BHT", "0019", "00", "REF1", "20240105", t>> : t \in TimeInputs}
    \cup {<<"BHT", "0019">>}

NextHeader ==
    \/ SegBHT(HeaderSegments, MaxHeader)
    \/ EndOfStream

SpecHeader == Init /\ [][NextHeader]_vars

\* YYYYMMDD as YYYY-MM-DD
Reshaped(s) == SubSeq(s, 1, 4) \o "-" \o SubSeq(s, 5, 6) \o "-" \o SubSeq(s, 7, 8)

(* C18: parse_date returns, for every input string, the YYYY-MM-DD         *)
(* reshaping when the input is exactly 8 digits and the input unchanged    *)
(* for any other length or shape, 8-character inputs that are not all      *)
(* digits included (seen in the date the BHT branch stores).               *)
C18_ReshapesOnly8Digits ==
    [][ReadStep("BHT") =>
        LET date_str == El(LastRead, 4)
        IN transaction'["date"] =
              IF Len(date_str) = 8 /\ AllDigits(date_str)
              THEN Reshaped(date_str)
              ELSE date_str]_vars

(* C19: parse_date is idempotent: parsing the date it returned gives that  *)
(* date again, and a value already formatted YYYY-MM-DD is returned        *)
(* unchanged.                                                              *)
C19_ParseDateIdempotent ==
    [][ReadStep("BHT") =>
        LET date_str == El(LastRead, 4)
        IN /\ transaction'["date"] = parse_date(date_str)
           /\ parse_date(transaction'["date"]) = transaction'["date"]
           /\ date_str = "2024-01-05" => transaction'["date"] = "2024-01-05"
           /\ date_str = "20240105" => transaction'["date"] = "2024-01-05"]_vars

\* A BHT whose date is already formatted has been read
C19_Witness ==
    /\ Len(consumed) = 2
    /\ El(consumed[1], 4) = "20240105"
    /\ El(consumed[2], 4) = "2024-01-05"
    /\ transaction["date"] = "2024-01-05"

(* C20: parse_time returns, for an input of at least 4 characters, its     *)
(* first two characters, a colon and its third and fourth characters, the  *)
(* rest being discarded, and returns a shorter input, the empty string     *)
(* included, unchanged (seen in the time the BHT branch stores).           *)
C20_ParseTime ==
    [][ReadStep("BHT") =>
        LET time_str == El(LastRead, 5)
        IN /\ transaction'["time"] =
                 IF Len(time_str) >= 4
                 THEN SubSeq(time_str, 1, 2) \o ":" \o SubSeq(time_str, 3, 4)
                 ELSE time_str
           /\ time_str = "093045" => transaction'["time"] = "09:30"
           /\ time_str = "093" => transaction'["time"] = "093"]_vars

\* A time of six characters has been cut to HH:MM, after an empty one
C20_Witness ==
    /\ Len(consumed) = 2
    /\ El(consumed[1], 5) = ""
    /\ El(consumed[2], 5) = "093045"
    /\ transaction["time"] = "09:30"

-----------------------------------------------------------------------------
(* Streams of diagnosis codes with qualifiers, segment terminators and     *)
(* blanks                                                                  *)

CodesSegments ==
    {<<"CLM", "A", "100">>,
     <<"HI", "ABK:K0230">>,
     <<"HI", "ABK:K0230~">>,
     <<"HI", " J10 ">>,
     <<"HI", "A:B:C1">>,
     <<"HI", "J45", "ABF:I10~">>,
     <<"HI", "">>}

NextCodes ==
    \/ SegCLM(CodesSegments, MaxCodes)
    \/ SegHI(CodesSegments, MaxCodes)
    \/ EndOfStream

SpecCodes == Init /\ [][NextCodes]_vars

\* A value without segment terminators and surrounding blanks
Cleaned(raw) == Strip(RemoveTilde(raw))

\* What follows the last ':' of the cleaned value, else the cleaned value
CleanedCode(raw) ==
    IF Contains(Cleaned(raw), ":") THEN AfterLast(Cleaned(raw), ":") ELSE Cleaned(raw)

(* C21: clean_code removes the segment terminators and the surrounding     *)
(* whitespace of its input and returns what follows the last ':' of the    *)
(* cleaned value, or the cleaned value when it has no ':' (seen in the     *)
(* primary diagnosis the HI branch stores from a non-empty element 1).     *)
C21_CleansThenUnqualifies ==
    [][(ReadStep("HI") /\ Truthy(current_claim) /\ El(LastRead, 1) # "")
          => current_claim'.diagnosis.primary = CleanedCode(El(LastRead, 1))]_vars

-----------------------------------------------------------------------------
(* Streams of claims and service lines with numeric and non-numeric        *)
(* amounts                                                                 *)

AmountsSegments ==
    {<<"CLM", "A", "100">>,
     <<"CLM", "B", "12x">>,
     <<"CLM", "C", "nan">>,
     <<"CLM", "D">>,
     <<"LX", "1">>,
     <<"LX", "x~">>,
     <<"SV1", "HC:99213", "75.5~">>,
     <<"SV1", "HC:99214", "abc">>,
     <<"SV1", "HC:99215", "Inf">>}

NextAmounts ==
    \/ SegCLM(AmountsSegments, MaxAmounts)
    \/ SegLX(AmountsSegments, MaxAmounts)
    \/ SegSV1(AmountsSegments, MaxAmounts)
    \/ EndOfStream

SpecAmounts == Init /\ [][NextAmounts]_vars

\* An element that is not a number once cleaned
NonNumeric(raw) == ~DecimalLiteral(Cleaned(raw))

\* The number zero, and not NaN or an infinity
IsZero(v) == ToString(v) = "0"

\* The SV1 branch is taken
SV1Applies == Truthy(current_claim) /\ Truthy(current_claim.serviceLines)

(* C22: safe_int and safe_float return the default for an empty, absent or *)
(* unparseable value, so that a CLM or SV1 segment whose charge element is *)
(* not numeric yields a charge of 0.0 and an LX whose number is not an     *)
(* integer yields line number 0, and the loop goes on.                     *)
C22_NonNumericGivesDefault ==
    [][/\ (ReadStep("CLM") /\ NonNumeric(El(LastRead, 2)))
            => IsZero(current_claim'.totalCharge) /\ pc' = "loop"
       /\ (ReadStep("SV1") /\ SV1Applies /\ NonNumeric(El(LastRead, 2)))
            => /\ IsZero(current_claim'.serviceLines[Len(current_claim'.serviceLines)].charge)
               /\ pc' = "loop"
       /\ (ReadStep("LX") /\ Truthy(current_claim) /\ ~IntParses(Cleaned(El(LastRead, 1))))
            => /\ current_claim'.serviceLines[Len(current_claim'.serviceLines)].lineNumber = 0
               /\ pc' = "loop"]_vars

-----------------------------------------------------------------------------
\* The claim accumulator: is a claim open
ClaimOpen == Truthy(current_claim)

\* 1 when a claim is open
OpenCount == IF ClaimOpen THEN 1 ELSE 0

\* In the loop a claim is open exactly when a CLM was consumed, and the
\* sealed claims plus the open one are as many as the CLM segments consumed
C30_Accounting ==
    /\ pc = "loop" =>
          /\ ClaimOpen <=> CLMsOf(consumed) # <<>>
          /\ Len(claims_data) + OpenCount = Len(CLMsOf(consumed))
    /\ pc = "done" => Len(claims_data) = Len(CLMsOf(consumed))

\* A consumed segment never closes the accumulator and adds to the sealed
\* list, at its end, the claim that was open when a CLM is read; the end of
\* the stream seals the open claim once
C30_Transitions ==
    /\ SegmentStep =>
          /\ ClaimOpen => ClaimOpen'
          /\ ~ReadStep("CLM") => claims_data' = claims_data /\ (ClaimOpen' <=> ClaimOpen)
          /\ ReadStep("CLM") =>
                /\ ClaimOpen'
                /\ claims_data' = IF ClaimOpen THEN Append(claims_data, current_claim)
                                  ELSE claims_data
    /\ (pc = "loop" /\ pc' = "done") =>
          claims_data' = IF ClaimOpen THEN Append(claims_data, current_claim)
                         ELSE claims_data

(* C30: the claim accumulator starts with no claim open, opens at the      *)
(* first CLM and stays open until the end of the stream; after every       *)
(* consumed segment the sealed claims, plus one when a claim is open, are  *)
(* as many as the CLM segments consumed; the sealed list grows only by     *)
(* appending; at the end of the stream the open claim is sealed once.      *)
C30_ClaimAccumulator == []C30_Accounting /\ [][C30_Transitions]_vars

\* CLM, CLM, LX, end of stream: one claim sealed by the second CLM, the
\* other by the end of the stream
C30_Witness ==
    /\ pc = "done"
    /\ Len(consumed) = 3
    /\ IsCLM(consumed[1]) /\ IsCLM(consumed[2]) /\ IsLX(consumed[3])
    /\ Len(claims_data) = 2
    /\ claims_data[1].id = El(consumed[1], 1)
    /\ claims_data[2].id = El(consumed[2], 1)

-----------------------------------------------------------------------------
(* translate_x12_complete_structured: the structure it builds.  Its locals *)
(* are result, current_claim and current_service_lines; a handler is an    *)
(* operator from these three (a record st) and the elements to their new   *)
(* values.                                                                 *)

\* The result dict at the start of the function
new_result(filepath) ==
    [file_info |-> [source_file |-> filepath,
                    file_type |-> "X12 837P Professional Healthcare Claim"],
     interchange_header |-> EmptyDict,
     functional_group |-> EmptyDict,
     transaction_set |-> EmptyDict,
     billing_provider |-> EmptyDict,
     subscriber |-> EmptyDict,
     claims |-> <<>>,
     all_segments |-> <<>>]

\* if key not in d: d[key] = []; d[key].append(v)
AppendTo(d, key, v) == Put(d, key, Append(Get(d, key, <<>>), v))

\* store_segment, keeping only the segments that have a branch of their own
store_segment_filtered(st, elements) ==
    IF elements[1] = "SE" THEN st
    ELSE [st EXCEPT !.result = AppendTo(@, "all_segments",
                                   [segment_id |-> elements[1], elements |-> elements])]

\* result["all_segments"].append({"segment_id": seg_id, "elements": elements})
store_segment(st, elements) ==
    [st EXCEPT !.result = AppendTo(@, "all_segments",
                                   [segment_id |-> elements[1], elements |-> elements])]

isa_record(elements) ==
    [segment_id |-> "ISA",
     authorization_info_qualifier |-> El(elements, 1),
     authorization_info |-> El(elements, 2),
     security_info_qualifier |-> El(elements, 3),
     security_info |-> El(elements, 4),
     sender_id_qualifier |-> El(elements, 5),
     sender_id |-> El(elements, 6),
     receiver_id_qualifier |-> El(elements, 7),
     receiver_id |-> El(elements, 8),
     interchange_date |-> El(elements, 9),
     interchange_time |-> El(elements, 10),
     standards_id |-> El(elements, 11),
     version_number |-> El(elements, 12),
     interchange_control_number |-> El(elements, 13),
     acknowledgment_requested |-> El(elements, 14),
     usage_indicator |-> El(elements, 15),
     all_elements |-> elements]

translate_ISA(st, elements) ==
    [st EXCEPT !.result = Put(@, "interchange_header", isa_record(elements))]

gs_record(elements) ==
    [segment_id |-> "GS",
     functional_id_code |-> El(elements, 1),
     application_sender_code |-> El(elements, 2),
     application_receiver_code |-> El(elements, 3),
     date |-> El(elements, 4),
     time |-> El(elements, 5),
     group_control_number |-> El(elements, 6),
     responsible_agency_code |-> El(elements, 7),
     version_code |-> El(elements, 8),
     all_elements |-> elements]

translate_GS(st, elements) ==
    [st EXCEPT !.result = Put(@, "functional_group", gs_record(elements))]

st_record(elements) ==
    [segment_id |-> "ST",
     transaction_set_id |-> El(elements, 1),
     transaction_control_number |-> El(elements, 2),
     implementation_convention_ref |-> El(elements, 3),
     all_elements |-> elements]

translate_ST(st, elements) ==
    [st EXCEPT !.result = Put(@, "transaction_set", st_record(elements))]

bht_record(elements) ==
    [segment_id |-> "BHT",
     hierarchical_structure_code |-> El(elements, 1),
     transaction_set_purpose_code |-> El(elements, 2),
     reference_id |-> El(elements, 3),
     date |-> El(elements, 4),
     time |-> El(elements, 5),
     claim_type |-> El(elements, 6),
     all_elements |-> elements]

translate_BHT(st, elements) ==
    [st EXCEPT !.result = Put(@, "transaction_set",
        Put(st.result["transaction_set"], "beginning_hierarchical_transaction", bht_record(elements)))]

\* entity_data of the NM1 branch
tr_entity_data(elements) ==
    [segment_id |-> "NM1",
     entity_id_code |-> El(elements, 1),
     entity_type_qualifier |-> El(elements, 2),
     name_last_or_organization |-> El(elements, 3),
     name_first |-> El(elements, 4),
     name_middle |-> El(elements, 5),
     name_prefix |-> El(elements, 6),
     name_suffix |-> El(elements, 7),
     id_code_qualifier |-> El(elements, 8),
     id_code |-> El(elements, 9),
     all_elements |-> elements]

\* if current_claim: current_claim[key] = v
ClaimPut(st, key, v) ==
    IF Truthy(st.current_claim)
    THEN [st EXCEPT !.current_claim = Put(@, key, v)]
    ELSE st

translate_NM1(st, elements) ==
    LET entity_code == El(elements, 1)
        ed == tr_entity_data(elements)
    IN CASE entity_code = "85" -> [st EXCEPT !.result = Put(@, "billing_provider", ed)]
         [] entity_code = "IL" -> [st EXCEPT !.result = Put(@, "subscriber", ed)]
         [] entity_code = "QC" -> ClaimPut(st, "patient", ed)
         [] entity_code = "PR" -> ClaimPut(st, "payer", ed)
         [] entity_code = "82" -> ClaimPut(st, "rendering_provider", ed)
         [] OTHER -> [st EXCEPT !.result = AppendTo(@, "other_entities", ed)]

\* The N3, N4 branches: the record goes to the patient of the open claim,
\* else to the billing provider when there is one
attach(st, key, v) ==
    IF Truthy(st.current_claim) /\ "patient" \in DOMAIN st.current_claim
    THEN [st EXCEPT !.current_claim = Put(@, "patient", Put(@["patient"], key, v))]
    ELSE IF Truthy(st.result["billing_provider"])
    THEN [st EXCEPT !.result = Put(@, "billing_provider",
                                   Put(@["billing_provider"], key, v))]
    ELSE st

address_data(elements) ==
    [segment_id |-> "N3",
     address_line_1 |-> El(elements, 1),
     address_line_2 |-> El(elements, 2),
     all_elements |-> elements]

translate_N3(st, elements) ==
    attach(st, "address", address_data(elements))

location_data(elements) ==
    [segment_id |-> "N4",
     city |-> El(elements, 1),
     state |-> El(elements, 2),
     postal_code |-> El(elements, 3),
     country_code |-> El(elements, 4),
     all_elements |-> elements]

translate_N4(st, elements) ==
    attach(st, "geographic_location", location_data(elements))

ref_data(elements) ==
    [segment_id |-> "REF",
     reference_id_qualifier |-> El(elements, 1),
     reference_id |-> El(elements, 2),
     description |-> El(elements, 3),
     all_elements |-> elements]

translate_REF(st, elements) ==
    IF Truthy(st.current_claim)
    THEN [st EXCEPT !.current_claim = AppendTo(@, "references", ref_data(elements))]
    ELSE [st EXCEPT !.result = AppendTo(@, "header_references", ref_data(elements))]

contact_data(elements) ==
    [segment_id |-> "PER",
     contact_function_code |-> El(elements, 1),
     name |-> El(elements, 2),
     communication_number_qualifier_1 |-> El(elements, 3),
     communication_number_1 |-> El(elements, 4),
     communication_number_qualifier_2 |-> El(elements, 5),
     communication_number_2 |-> El(elements, 6),
     all_elements |-> elements]

translate_PER(st, elements) ==
    [st EXCEPT !.result = AppendTo(@, "contacts", contact_data(elements))]

\* Save previous claim: its service lines are attached when it is sealed
tr_seal(st) ==
    IF Truthy(st.current_claim)
    THEN [st EXCEPT !.result =
             AppendTo(@, "claims",
                      Put(st.current_claim, "service_lines", st.current_service_lines))]
    ELSE st

clm_record(elements) ==
    [segment_id |-> "CLM",
     claim_id |-> El(elements, 1),
     total_charge |-> El(elements, 2),
     claim_filing_indicator |-> El(elements, 5),
     provider_signature_indicator |-> El(elements, 6),
     assignment_plan |-> El(elements, 7),
     benefits_assignment |-> El(elements, 8),
     release_info |-> El(elements, 9),
     all_elements |-> elements]

\* translate_CLM, with the lines of the claim before left in the list
translate_CLM_keeps_lines(st, elements) ==
    [tr_seal(st) EXCEPT !.current_claim = clm_record(elements)]

translate_CLM(st, elements) ==
    [tr_seal(st) EXCEPT
        !.current_claim = clm_record(elements),
        !.current_service_lines = <<>>]

\* [elements[i] for i in range(1, len(elements)) if elements[i]]
NonEmptyFrom(elements, i) ==
    SelectSeq(SubSeq(elements, i + 1, Len(elements)), LAMBDA e : e # "")

hi_record(elements) ==
    [segment_id |-> "HI",
     codes |-> NonEmptyFrom(elements, 1),
     all_elements |-> elements]

translate_HI(st, elements) ==
    ClaimPut(st, "diagnosis_codes", hi_record(elements))

date_data(elements) ==
    [segment_id |-> "DTP",
     date_qualifier |-> El(elements, 1),
     date_format |-> El(elements, 2),
     date_value |-> El(elements, 3),
     all_elements |-> elements]

translate_DTP(st, elements) ==
    IF Truthy(st.current_claim)
    THEN [st EXCEPT !.current_claim =
             AppendTo(@, "dates", date_data(elements))]
    ELSE st

current_service_line(elements) ==
    [segment_id |-> "LX",
     line_number |-> El(elements, 1),
     all_elements |-> elements]

translate_LX(st, elements) ==
    IF Truthy(st.current_claim)
    THEN [st EXCEPT !.current_service_lines =
             Append(@, current_service_line(elements))]
    ELSE st

service_info(elements) ==
    [segment_id |-> "SV1",
     procedure_info |-> El(elements, 1),
     line_charge |-> El(elements, 2),
     unit_basis |-> El(elements, 3),
     unit_count |-> El(elements, 4),
     place_of_service |-> El(elements, 5),
     diagnosis_pointer |-> El(elements, 7),
     all_elements |-> elements]

translate_SV1(st, elements) ==
    IF Truthy(st.current_claim) /\ Truthy(st.current_service_lines)
    THEN [st EXCEPT !.current_service_lines[Len(st.current_service_lines)] =
             Put(@, "service_info", service_info(elements))]
    ELSE st

hl_data(elements) ==
    [segment_id |-> "HL",
     hierarchical_id |-> El(elements, 1),
     parent_id |-> El(elements, 2),
     level_code |-> El(elements, 3),
     child_code |-> El(elements, 4),
     all_elements |-> elements]

translate_HL(st, elements) ==
    [st EXCEPT !.result = AppendTo(@, "hierarchical_levels", hl_data(elements))]

sbr_data(elements) ==
    [segment_id |-> "SBR",
     payer_responsibility |-> El(elements, 1),
     individual_relationship |-> El(elements, 2),
     group_number |-> El(elements, 3),
     group_name |-> El(elements, 4),
     insurance_type |-> El(elements, 5),
     claim_filing_indicator |-> El(elements, 9),
     all_elements |-> elements]

translate_SBR(st, elements) ==
    [st EXCEPT !.result = Put(@, "subscriber",
        Put(st.result["subscriber"], "insurance_info", sbr_data(elements)))]

prv_data(elements) ==
    [segment_id |-> "PRV",
     provider_code |-> El(elements, 1),
     reference_id_qualifier |-> El(elements, 2),
     reference_id |-> El(elements, 3),
     all_elements |-> elements]

translate_PRV(st, elements) ==
    [st EXCEPT !.result = AppendTo(@, "provider_info", prv_data(elements))]

dmg_data(elements) ==
    [segment_id |-> "DMG",
     date_format |-> El(elements, 1),
     date_of_birth |-> El(elements, 2),
     gender |-> El(elements, 3),
     all_elements |-> elements]

translate_DMG(st, elements) ==
    IF Truthy(st.current_claim) /\ "patient" \in DOMAIN st.current_claim
    THEN [st EXCEPT !.current_claim =
             Put(@, "patient",
                 Put(@["patient"], "demographics", dmg_data(elements)))]
    ELSE st

amt_data(elements) ==
    [segment_id |-> "AMT",
     amount_qualifier |-> El(elements, 1),
     amount |-> El(elements, 2),
     all_elements |-> elements]

translate_AMT(st, elements) ==
    IF Truthy(st.current_claim)
    THEN [st EXCEPT !.current_claim =
             AppendTo(@, "amounts", amt_data(elements))]
    ELSE st

\* A segment of no handled tag is stored in all_segments only
translate_other(st, elements) == st

\* sum(len(claim.get("service_lines", [])) for claim in result["claims"])
RECURSIVE total_service_lines(_)
total_service_lines(cs) ==
    IF cs = <<>> THEN 0
    ELSE Len(Get(Head(cs), "service_lines", <<>>)) + total_service_lines(Tail(cs))

\* result["summary"] = {...}
summary(res) ==
    [total_segments |-> Len(res["all_segments"]),
     total_claims |-> Len(res["claims"]),
     total_service_lines |-> total_service_lines(res["claims"])]

\* After the loop: the last claim is sealed and the summary added
finish(st) ==
    LET sealed == tr_seal(st).result
    IN Put(sealed, "summary", summary(sealed))

-----------------------------------------------------------------------------
(* The loop of translate_x12_complete_structured *)

\* The locals of the function
Locals ==
    [result |-> result, current_claim |-> current_claim,
     current_service_lines |-> current_service_lines]

\* The reader delivers `elements` (at most `bound` segments in all), the
\* segment is stored and its branch leaves the locals as st
TrStep(elements, bound, st) ==
    /\ program = "translate_x12_complete_structured"
    /\ pc = "loop"
    /\ Len(consumed) < bound
    /\ consumed' = Append(consumed, elements)
    /\ pc' = pc
    /\ result' = st.result
    /\ current_claim' = st.current_claim
    /\ current_service_lines' = st.current_service_lines
    /\ UNCHANGED <<transaction, parties, tracker, claims_data, heap, output, program,
                   batch>>

TrISA(S, bound) == \E elements \in Tagged(S, "ISA") : TrStep(elements, bound, translate_ISA(store_segment(Locals, elements), elements))
TrGS(S, bound) == \E elements \in Tagged(S, "GS") : TrStep(elements, bound, translate_GS(store_segment(Locals, elements), elements))
TrST(S, bound) == \E elements \in Tagged(S, "ST") : TrStep(elements, bound, translate_ST(store_segment(Locals, elements), elements))
TrBHT(S, bound) == \E elements \in Tagged(S, "BHT") : TrStep(elements, bound, translate_BHT(store_segment(Locals, elements), elements))
TrNM1(S, bound) == \E elements \in Tagged(S, "NM1") : TrStep(elements, bound, translate_NM1(store_segment(Locals, elements), elements))
TrN3(S, bound) == \E elements \in Tagged(S, "N3") : TrStep(elements, bound, translate_N3(store_segment(Locals, elements), elements))
TrN4(S, bound) == \E elements \in Tagged(S, "N4") : TrStep(elements, bound, translate_N4(store_segment(Locals, elements), elements))
TrREF(S, bound) == \E elements \in Tagged(S, "REF") : TrStep(elements, bound, translate_REF(store_segment(Locals, elements), elements))
TrPER(S, bound) == \E elements \in Tagged(S, "PER") : TrStep(elements, bound, translate_PER(store_segment(Locals, elements), elements))
TrCLM(S, bound) == \E elements \in Tagged(S, "CLM") : TrStep(elements, bound, translate_CLM(store_segment(Locals, elements), elements))
TrHI(S, bound) == \E elements \in Tagged(S, "HI") : TrStep(elements, bound, translate_HI(store_segment(Locals, elements), elements))
TrDTP(S, bound) == \E elements \in Tagged(S, "DTP") : TrStep(elements, bound, translate_DTP(store_segment(Locals, elements), elements))
TrLX(S, bound) == \E elements \in Tagged(S, "LX") : TrStep(elements, bound, translate_LX(store_segment(Locals, elements), elements))
TrSV1(S, bound) == \E elements \in Tagged(S, "SV1") : TrStep(elements, bound, translate_SV1(store_segment(Locals, elements), elements))
TrHL(S, bound) == \E elements \in Tagged(S, "HL") : TrStep(elements, bound, translate_HL(store_segment(Locals, elements), elements))
TrSBR(S, bound) == \E elements \in Tagged(S, "SBR") : TrStep(elements, bound, translate_SBR(store_segment(Locals, elements), elements))
TrPRV(S, bound) == \E elements \in Tagged(S, "PRV") : TrStep(elements, bound, translate_PRV(store_segment(Locals, elements), elements))
TrDMG(S, bound) == \E elements \in Tagged(S, "DMG") : TrStep(elements, bound, translate_DMG(store_segment(Locals, elements), elements))
TrAMT(S, bound) == \E elements \in Tagged(S, "AMT") : TrStep(elements, bound, translate_AMT(store_segment(Locals, elements), elements))
TrOther(S, bound) == \E elements \in Tagged(S, "SE") : TrStep(elements, bound, translate_other(store_segment(Locals, elements), elements))

TrEndOfStream ==
    /\ program = "translate_x12_complete_structured"
    /\ pc = "loop"
    /\ pc' = "done"
    /\ result' = finish(Locals)
    /\ returned' = result'
    /\ UNCHANGED <<consumed, transaction, parties, tracker, claims, heap, results,
                   program, current_service_lines, batch>>

\* The state at the start of translate_x12_complete_structured(filepath)
InitTranslate(filepath) ==
    /\ consumed = <<>>
    /\ pc = "loop"
    /\ program = "translate_x12_complete_structured"
    /\ result = new_result(filepath)
    /\ current_claim = None
    /\ current_service_lines = <<>>
    /\ returned = <<>>
    /\ transaction = EmptyDict
    /\ submitter = EmptyDict
    /\ receiver = EmptyDict
    /\ billing_provider = EmptyDict
    /\ pay_to_provider = EmptyDict
    /\ subscriber = EmptyDict
    /\ payer = EmptyDict
    /\ claims_data = <<>>
    /\ temp_addresses = EmptyDict
    /\ current_entity = NoEntity
    /\ heap = <<>>
    /\ results = <<>>
    /\ NoBatch

-----------------------------------------------------------------------------
(* Streams of short element arrays, down to the tag alone, read by either  *)
(* function                                                                *)

Tags ==
    {"ISA", "GS", "ST", "BHT", "NM1", "N3", "N4", "PER", "SBR", "DMG", "CLM",
     "HI", "DTP", "REF", "LX", "SV1", "HL", "PRV", "AMT"}

ShortSegments ==
    {<<tag>> : tag \in Tags}
    \cup {<<"NM1", "IL">>, <<"NM1", "QC">>, <<"DTP", "431">>}

\* The loop of either function, up to MaxShort segments
NextShort ==
    \/ SegISA(ShortSegments, MaxShort)
    \/ SegGS(ShortSegments, MaxShort)
    \/ SegST(ShortSegments, MaxShort)
    \/ SegBHT(ShortSegments, MaxShort)
    \/ SegNM1(ShortSegments, MaxShort)
    \/ SegN3(ShortSegments, MaxShort)
    \/ SegN4(ShortSegments, MaxShort)
    \/ SegPER(ShortSegments, MaxShort)
    \/ SegSBR(ShortSegments, MaxShort)
    \/ SegDMG(ShortSegments, MaxShort)
    \/ SegCLM(ShortSegments, MaxShort)
    \/ SegHI(ShortSegments, MaxShort)
    \/ SegDTP(ShortSegments, MaxShort)
    \/ SegREF(ShortSegments, MaxShort)
    \/ SegLX(ShortSegments, MaxShort)
    \/ SegSV1(ShortSegments, MaxShort)
    \/ TrISA(ShortSegments, MaxShort)
    \/ TrGS(ShortSegments, MaxShort)
    \/ TrST(ShortSegments, MaxShort)
    \/ TrBHT(ShortSegments, MaxShort)
    \/ TrNM1(ShortSegments, MaxShort)
    \/ TrN3(ShortSegments, MaxShort)
    \/ TrN4(ShortSegments, MaxShort)
    \/ TrREF(ShortSegments, MaxShort)
    \/ TrPER(ShortSegments, MaxShort)
    \/ TrCLM(ShortSegments, MaxShort)
    \/ TrHI(ShortSegments, MaxShort)
    \/ TrDTP(ShortSegments, MaxShort)
    \/ TrLX(ShortSegments, MaxShort)
    \/ TrSV1(ShortSegments, MaxShort)
    \/ TrHL(ShortSegments, MaxShort)
    \/ TrSBR(ShortSegments, MaxShort)
    \/ TrPRV(ShortSegments, MaxShort)
    \/ TrDMG(ShortSegments, MaxShort)
    \/ TrAMT(ShortSegments, MaxShort)

\* Either function is called
InitShort == Init \/ InitTranslate("short.txt")

SpecShort == InitShort /\ [][NextShort]_vars

\* The highest element position a branch reads, plus one
FieldWidth == 16

\* The array with every position up to FieldWidth present, the added ones
\* empty
Pad(elements) == elements \o [i \in 1..(FieldWidth - Len(elements)) |-> ""]

\* The branch of parse_x12_for_viewer a segment takes
ViewerBranch(elements) ==
    CASE elements[1] = "ISA" -> HandleISA(elements)
      [] elements[1] = "GS" -> HandleGS(elements)
      [] elements[1] = "ST" -> HandleST(elements)
      [] elements[1] = "BHT" -> HandleBHT(elements)
      [] elements[1] = "NM1" -> HandleNM1(elements)
      [] elements[1] = "N3" -> HandleN3(elements)
      [] elements[1] = "N4" -> HandleN4(elements)
      [] elements[1] = "PER" -> HandlePER(elements)
      [] elements[1] = "SBR" -> HandleSBR(elements)
      [] elements[1] = "DMG" -> HandleDMG(elements)
      [] elements[1] = "CLM" -> HandleCLM(elements)
      [] elements[1] = "HI" -> HandleHI(elements)
      [] elements[1] = "DTP" -> HandleDTP(elements)
      [] elements[1] = "REF" -> HandleREF(elements)
      [] elements[1] = "LX" -> HandleLX(elements)
      [] elements[1] = "SV1" -> HandleSV1(elements)
      [] OTHER -> HandleOther(elements)

\* The record translate_x12_complete_structured builds from a segment
tr_record(elements) ==
    CASE elements[1] = "ISA" -> isa_record(elements)
      [] elements[1] = "GS" -> gs_record(elements)
      [] elements[1] = "ST" -> st_record(elements)
      [] elements[1] = "BHT" -> bht_record(elements)
      [] elements[1] = "NM1" -> tr_entity_data(elements)
      [] elements[1] = "N3" -> address_data(elements)
      [] elements[1] = "N4" -> location_data(elements)
      [] elements[1] = "REF" -> ref_data(elements)
      [] elements[1] = "PER" -> contact_data(elements)
      [] elements[1] = "CLM" -> clm_record(elements)
      [] elements[1] = "HI" -> hi_record(elements)
      [] elements[1] = "DTP" -> date_data(elements)
      [] elements[1] = "LX" -> current_service_line(elements)
      [] elements[1] = "SV1" -> service_info(elements)
      [] elements[1] = "HL" -> hl_data(elements)
      [] elements[1] = "SBR" -> sbr_data(elements)
      [] elements[1] = "PRV" -> prv_data(elements)
      [] elements[1] = "DMG" -> dmg_data(elements)
      [] elements[1] = "AMT" -> amt_data(elements)

\* Two records with the same fields, the copy of the raw elements apart
SameFields(r1, r2) ==
    /\ DOMAIN r1 = DOMAIN r2
    /\ \A f \in DOMAIN r1 \ {"all_elements"} : r1[f] = r2[f]

\* In translate_x12_complete_structured a short array gives the record of
\* the array padded with empty strings, and the handler does not fail
TranslatorDefaults ==
    (SegmentStep /\ program = "translate_x12_complete_structured") =>
        /\ pc' = "loop"
        /\ SameFields(tr_record(LastRead), tr_record(Pad(LastRead)))

\* The numeric fields of parse_x12_for_viewer take zero
ViewerZeroDefaults ==
    /\ (ReadStep("CLM") /\ Len(LastRead) <= 2)
          => current_claim'.id = El(LastRead, 1) /\ current_claim'.totalCharge = 0
    /\ (ReadStep("LX") /\ Truthy(current_claim) /\ Len(LastRead) = 1)
          => current_claim'.serviceLines[Len(current_claim'.serviceLines)].lineNumber = 0

-----------------------------------------------------------------------------
(* validate_output (x12_claims_parser.py)                                  *)

MaxListLen == 2

\* Python values, by type
PyNone == [type |-> "NoneType"]
PyInt(n) == [type |-> "int", int |-> n]
PyStr(s) == [type |-> "str", str |-> s]
PyList(l) == [type |-> "list", list |-> l]
PyDict(d) == [type |-> "dict", dict |-> d]

\* isinstance(data, dict)
IsDict(v) == v.type = "dict"

\* The types len() accepts
Sized(v) == v.type \in {"list", "str", "dict"}

\* len(v)
PyLenOf(v) ==
    CASE v.type = "list" -> Len(v.list)
      [] v.type = "str" -> Len(v.str)
      [] v.type = "dict" -> Cardinality(DOMAIN v.dict)

\* validate_output without the test of the summary
validate_output_without_summary(data) ==
    IF ~IsDict(data)
    THEN <<FALSE, "Output must be a dictionary">>
    ELSE IF "all_segments" \notin DOMAIN data.dict
    THEN <<FALSE, "No segments found">>
    ELSE IF ~Sized(data.dict["all_segments"])
    THEN <<FALSE, "Validation error: object of type '"
                  \o data.dict["all_segments"].type \o "' has no len()">>
    ELSE IF PyLenOf(data.dict["all_segments"]) = 0
    THEN <<FALSE, "No segments found">>
    ELSE <<TRUE, "Valid">>

\* validate_output(data): the pair (is_valid, msg). len() of a value without
\* a length raises TypeError, which the except clause turns into a failure
validate_output(data) ==
    IF ~IsDict(data)
    THEN <<FALSE, "Output must be a dictionary">>
    ELSE IF "all_segments" \notin DOMAIN data.dict
    THEN <<FALSE, "No segments found">>
    ELSE IF ~Sized(data.dict["all_segments"])
    THEN <<FALSE, "Validation error: object of type '"
                  \o data.dict["all_segments"].type \o "' has no len()">>
    ELSE IF PyLenOf(data.dict["all_segments"]) = 0
    THEN <<FALSE, "No segments found">>
    ELSE IF "summary" \notin DOMAIN data.dict
    THEN <<FALSE, "Missing summary">>
    ELSE <<TRUE, "Valid">>

\* The values of all_segments tried
SegmentLists ==
    {PyList([i \in 1..n |-> PyDict([segment_id |-> PyStr("SE")])]) : n \in 0..MaxListLen}

AllSegmentsValues ==
    SegmentLists \cup {PyNone, PyInt(5), PyStr(""), PyStr("ab"), PyDict(EmptyDict)}

SummaryValues == {PyNone, PyDict([total_segments |-> PyInt(1)])}

\* The dicts with some of the keys all_segments, summary, claims, file_info
ValidateDicts ==
    {PyDict([k \in K |-> [all_segments |-> a, summary |-> s,
                          claims |-> PyList(<<>>),
                          file_info |-> PyDict(EmptyDict)][k]]) :
        a \in AllSegmentsValues, s \in SummaryValues,
        K \in SUBSET {"all_segments", "summary", "claims", "file_info"}}

ValidateInputs ==
    {PyNone, PyInt(5), PyStr("x"), PyList(<<>>)} \cup ValidateDicts

\* A call validate_output(data), data any of ValidateInputs
InitValidate ==
    /\ consumed = <<>>
    /\ pc = "call"
    /\ program = "validate_output"
    /\ result \in ValidateInputs
    /\ current_claim = None
    /\ current_service_lines = <<>>
    /\ returned = <<>>
    /\ transaction = EmptyDict
    /\ submitter = EmptyDict
    /\ receiver = EmptyDict
    /\ billing_provider = EmptyDict
    /\ pay_to_provider = EmptyDict
    /\ subscriber = EmptyDict
    /\ payer = EmptyDict
    /\ claims_data = <<>>
    /\ temp_addresses = EmptyDict
    /\ current_entity = NoEntity
    /\ heap = <<>>
    /\ results = <<>>
    /\ NoBatch

Validate ==
    /\ program = "validate_output"
    /\ pc = "call"
    /\ pc' = "done"
    /\ returned' = validate_output(result)
    /\ UNCHANGED <<consumed, interp, results, program, translator, batch>>

NextValidate == Validate

SpecValidate == InitValidate /\ [][NextValidate]_vars

Validated == program = "validate_output" /\ pc = "done"

HasNoSegments(data) ==
    \/ "all_segments" \notin DOMAIN data.dict
    \/ /\ Sized(data.dict["all_segments"])
       /\ PyLenOf(data.dict["all_segments"]) = 0

Unsized(data) ==
    /\ "all_segments" \in DOMAIN data.dict
    /\ ~Sized(data.dict["all_segments"])

(* C24, as stated: validate_output fails, with a message, when the         *)
(* argument is not a dictionary, when all_segments is missing or empty, or *)
(* when summary is missing, and returns (True, "Valid") in every other     *)
(* case.                                                                   *)
C24_PassInEveryOtherCase ==
    Validated =>
        IF \/ ~IsDict(result)
           \/ HasNoSegments(result)
           \/ "summary" \notin DOMAIN result.dict
        THEN returned[1] = FALSE /\ returned[2] # ""
        ELSE returned = <<TRUE, "Valid">>

(* C24, amended: as above, and it also fails, with the message             *)
(* "Validation error: ..." of the exception, when all_segments is present  *)
(* and has no length (None, a number); it passes in every other case and   *)
(* returns in all.                                                         *)
C24_ValidateOutput ==
    Validated =>
        /\ returned[1] \in BOOLEAN
        /\ IF ~IsDict(result)
           THEN returned = <<FALSE, "Output must be a dictionary">>
           ELSE IF HasNoSegments(result)
           THEN returned = <<FALSE, "No segments found">>
           ELSE IF Unsized(result)
           THEN /\ returned[1] = FALSE
                /\ SubSeq(returned[2], 1, 18) = "Validation error: "
           ELSE IF "summary" \notin DOMAIN result.dict
           THEN returned = <<FALSE, "Missing summary">>
           ELSE returned = <<TRUE, "Valid">>

\* all_segments is None and the summary is there: a failure
C24_Witness ==
    /\ Validated
    /\ result = PyDict([all_segments |-> PyNone,
                        summary |-> PyDict([total_segments |-> PyInt(1)])])
    /\ returned = <<FALSE, "Validation error: object of type 'NoneType' has no len()">>

-----------------------------------------------------------------------------
(* The batch drivers: batch_translate (batch_translator.py) and            *)
(* batch_parse_for_viewer (batch_parser_for_viewer.py)                     *)

MaxFiles == 2
MaxFileStream == 2

\* extensions = ['*.txt', '*.edi', '*.x12', '*.837', '*.TXT', '*.EDI']
extensions == <<"*.txt", "*.edi", "*.x12", "*.837", "*.TXT", "*.EDI">>

\* The names a directory may hold
FileNames == {"a.txt", "a.edi", "b.x12", "notes.md"}

EndsWith(s, suffix) ==
    /\ Len(s) >= Len(suffix)
    /\ SubSeq(s, Len(s) - Len(suffix) + 1, Len(s)) = suffix

\* fnmatch of a name with a pattern "*" + suffix, as glob does it: case
\* sensitive, hidden names left out
glob_match(name, pattern) ==
    /\ SubSeq(name, 1, 1) # "."
    /\ EndsWith(name, SubSeq(pattern, 2, Len(pattern)))

\* The orders in which glob may list the names of a set
Orderings(S) ==
    {f \in [1..Cardinality(S) -> S] : \A i, j \in DOMAIN f : i # j => f[i] # f[j]}

\* input_files after the loop over extensions[i..]
RECURSIVE DiscoveredFrom(_, _)
DiscoveredFrom(directory, i) ==
    IF i > Len(extensions)
    THEN {<<>>}
    ELSE {found \o rest :
            found \in Orderings({name \in directory : glob_match(name, extensions[i])}),
            rest \in DiscoveredFrom(directory, i + 1)}

\* os.path.splitext(filename)[0]: the name up to its last dot, when a
\* character other than a dot comes before it
splitext(filename) ==
    LET dots == {i \in 1..Len(filename) : SubSeq(filename, i, i) = "."}
        dotIndex == IF dots = {} THEN 0 ELSE CHOOSE i \in dots : \A j \in dots : j <= i
    IN IF \E i \in 1..(dotIndex - 1) : SubSeq(filename, i, i) # "."
       THEN SubSeq(filename, 1, dotIndex - 1)
       ELSE filename

\* output_file = os.path.join(output_dir, f"{basename_no_ext}_parsed.json"),
\* "_claim.json" in batch_parse_for_viewer
output_file(d, filename) ==
    IF d = "batch_translate"
    THEN "output_files/" \o splitext(filename) \o "_parsed.json"
    ELSE "output_files_viewer/" \o splitext(filename) \o "_claim.json"

\* The function a driver calls
FunctionOf(d) ==
    IF d = "batch_translate"
    THEN "translate_x12_complete_structured"
    ELSE "parse_x12_for_viewer"

input_file == input_files[file_index + 1]

\* The state when the for loop over input_files begins
InitBatch ==
    /\ driver \in {"batch_translate", "batch_parse_for_viewer"}
    /\ \E directory \in SUBSET FileNames :
          /\ input_files \in DiscoveredFrom(directory, 1)
          /\ Len(input_files) <= MaxFiles
    /\ file_index = 0
    /\ success_count = 0
    /\ error_count = 0
    /\ batch_results = <<>>
    /\ writes = <<>>
    /\ history = <<>>
    /\ pc = IF input_files = <<>> THEN "batch_done" ELSE "next_file"
    /\ program = FunctionOf(driver)
    /\ consumed = <<>>
    /\ transaction = EmptyDict
    /\ submitter = EmptyDict
    /\ receiver = EmptyDict
    /\ billing_provider = EmptyDict
    /\ pay_to_provider = EmptyDict
    /\ subscriber = EmptyDict
    /\ payer = EmptyDict
    /\ current_claim = None
    /\ claims_data = <<>>
    /\ temp_addresses = EmptyDict
    /\ current_entity = NoEntity
    /\ heap = <<>>
    /\ results = <<>>
    /\ returned = <<>>
    /\ result = EmptyDict
    /\ current_service_lines = <<>>

\* StartFile, but the list of sealed claims of the file before is kept
StartFile_keeps_claims_data ==
    /\ driver # "none"
    /\ pc = "next_file"
    /\ pc' = "loop"
    /\ consumed' = <<>>
    /\ transaction' = EmptyDict
    /\ submitter' = EmptyDict
    /\ receiver' = EmptyDict
    /\ billing_provider' = EmptyDict
    /\ pay_to_provider' = EmptyDict
    /\ subscriber' = EmptyDict
    /\ payer' = EmptyDict
    /\ current_claim' = None
    /\ claims_data' = claims_data
    /\ temp_addresses' = EmptyDict
    /\ current_entity' = NoEntity
    /\ heap' = heap
    /\ results' = <<>>
    /\ returned' = <<>>
    /\ result' = IF driver = "batch_translate" THEN new_result(input_file) ELSE EmptyDict
    /\ current_service_lines' = <<>>
    /\ UNCHANGED <<program, batch>>

\* data = parse_x12_for_viewer(input_file), or
\* translate_x12_complete_structured(input_file): the call begins, with the
\* locals of the function new
StartFile ==
    /\ driver # "none"
    /\ pc = "next_file"
    /\ pc' = "loop"
    /\ consumed' = <<>>
    /\ transaction' = EmptyDict
    /\ submitter' = EmptyDict
    /\ receiver' = EmptyDict
    /\ billing_provider' = EmptyDict
    /\ pay_to_provider' = EmptyDict
    /\ subscriber' = EmptyDict
    /\ payer' = EmptyDict
    /\ current_claim' = None
    /\ claims_data' = <<>>
    /\ temp_addresses' = EmptyDict
    /\ current_entity' = NoEntity
    /\ heap' = <<>>
    /\ results' = <<>>
    /\ returned' = <<>>
    /\ result' = IF driver = "batch_translate" THEN new_result(input_file) ELSE EmptyDict
    /\ current_service_lines' = <<>>
    /\ UNCHANGED <<program, batch>>

\* Raise, but the except clause returns what the loop has built so far
Raise_returns_partial ==
    /\ pc = "loop"
    /\ pc' = "done"
    /\ results' = IF program = "parse_x12_for_viewer"
                  THEN build_results(claims_data, pay_to_provider)
                  ELSE results
    /\ returned' = IF program = "parse_x12_for_viewer"
                   THEN return_value(results')
                   ELSE Put(result, "summary", summary(result))
    /\ UNCHANGED <<consumed, interp, program, translator, batch>>

\* open() or the reader raises, at the start or at any segment: the except
\* clause of the function raises RuntimeError and nothing is returned
Raise ==
    /\ pc = "loop"
    /\ pc' = "raised"
    /\ UNCHANGED <<consumed, interp, output, program, translator, batch>>

\* The position of the for loop after this file
NextFile == IF file_index + 1 < Len(input_files) THEN "next_file" ELSE "batch_done"

\* The keys of the structure of translate_x12_complete_structured that hold
\* lists
ListKeys ==
    {"claims", "all_segments", "other_entities", "header_references", "contacts",
     "hierarchical_levels", "provider_info"}

\* The structure as a Python value
py_result(data) ==
    PyDict([k \in DOMAIN data |->
              IF k \in ListKeys THEN PyList(data[k]) ELSE PyDict(data[k])])

\* validation_status: what json.dump wrote is read back by json.load, so
\* syntax_valid is True
validation_status(data) ==
    LET checked == validate_output(py_result(data))
    IN IF checked[1] THEN "VALID" ELSE "WARNING: " \o checked[2]

\* The entry of `results` of a file that succeeded
success_entry(data) ==
    [input |-> input_file,
     output |-> output_file(driver, input_file),
     status |-> "SUCCESS",
     validation |-> validation_status(data),
     segments |-> data["summary"]["total_segments"],
     claims |-> data["summary"]["total_claims"],
     service_lines |-> data["summary"]["total_service_lines"]]

failed_entry(error) ==
    [input |-> input_file, output |-> "-", status |-> "FAILED", error |-> error]

\* WriteOutput, but a failed validation is raised in the try block
WriteOutput_validation_raises ==
    /\ driver # "none"
    /\ pc = "done"
    /\ pc' = NextFile
    /\ writes' = Append(writes, [input |-> input_file,
                                 path |-> output_file(driver, input_file),
                                 data |-> returned,
                                 complete |-> TRUE])
    /\ LET failed == /\ driver = "batch_translate"
                     /\ ~validate_output(py_result(returned))[1]
       IN /\ success_count' = IF failed THEN success_count ELSE success_count + 1
          /\ error_count' = IF failed THEN error_count + 1 ELSE error_count
          /\ batch_results' =
                IF driver # "batch_translate" THEN batch_results
                ELSE IF failed THEN Append(batch_results, failed_entry("ValueError"))
                ELSE Append(batch_results, success_entry(returned))
    /\ history' = Append(history, [input |-> input_file, stream |-> consumed,
                                   outcome |-> "returned", returned |-> returned,
                                   written |-> TRUE])
    /\ file_index' = file_index + 1
    /\ UNCHANGED <<consumed, interp, output, program, translator, driver, input_files>>

\* The rest of the try block after the call returned: the output is written,
\* checked and counted
WriteOutput ==
    /\ driver # "none"
    /\ pc = "done"
    /\ pc' = NextFile
    /\ writes' = Append(writes, [input |-> input_file,
                                 path |-> output_file(driver, input_file),
                                 data |-> returned,
                                 complete |-> TRUE])
    /\ success_count' = success_count + 1
    /\ batch_results' = IF driver = "batch_translate"
                        THEN Append(batch_results, success_entry(returned))
                        ELSE batch_results
    /\ history' = Append(history, [input |-> input_file, stream |-> consumed,
                                   outcome |-> "returned", returned |-> returned,
                                   written |-> TRUE])
    /\ file_index' = file_index + 1
    /\ UNCHANGED <<consumed, interp, output, program, translator, driver, input_files,
                   error_count>>

\* open(output_file, 'w') or json.dump raises: the except clause of the
\* driver counts the file as failed; the output file may have been created
WriteFails ==
    /\ driver # "none"
    /\ pc = "done"
    /\ pc' = NextFile
    /\ \E created \in BOOLEAN :
          writes' = IF created
                    THEN Append(writes, [input |-> input_file,
                                         path |-> output_file(driver, input_file),
                                         data |-> returned,
                                         complete |-> FALSE])
                    ELSE writes
    /\ error_count' = error_count + 1
    /\ batch_results' = IF driver = "batch_translate"
                        THEN Append(batch_results, failed_entry("OSError"))
                        ELSE batch_results
    /\ history' = Append(history, [input |-> input_file, stream |-> consumed,
                                   outcome |-> "returned", returned |-> returned,
                                   written |-> FALSE])
    /\ file_index' = file_index + 1
    /\ UNCHANGED <<consumed, interp, output, program, translator, driver, input_files,
                   success_count>>

\* RecordFailure, but the exception ends the for loop
RecordFailure_ends_loop ==
    /\ driver # "none"
    /\ pc = "raised"
    /\ pc' = "batch_done"
    /\ error_count' = error_count + 1
    /\ batch_results' = IF driver = "batch_translate"
                        THEN Append(batch_results, failed_entry("RuntimeError"))
                        ELSE batch_results
    /\ history' = Append(history, [input |-> input_file, stream |-> consumed,
                                   outcome |-> "raised", returned |-> <<>>,
                                   written |-> FALSE])
    /\ file_index' = file_index + 1
    /\ UNCHANGED <<consumed, interp, output, program, translator, driver, input_files,
                   success_count, writes>>

\* except Exception as e: the call raised
RecordFailure ==
    /\ driver # "none"
    /\ pc = "raised"
    /\ pc' = NextFile
    /\ error_count' = error_count + 1
    /\ batch_results' = IF driver = "batch_translate"
                        THEN Append(batch_results, failed_entry("RuntimeError"))
                        ELSE batch_results
    /\ history' = Append(history, [input |-> input_file, stream |-> consumed,
                                   outcome |-> "raised", returned |-> <<>>,
                                   written |-> FALSE])
    /\ file_index' = file_index + 1
    /\ UNCHANGED <<consumed, interp, output, program, translator, driver, input_files,
                   success_count, writes>>

BatchSegments == {<<"CLM", "A", "100">>, <<"LX", "1">>}

NextBatch ==
    \/ StartFile
    \/ SegCLM(BatchSegments, MaxFileStream)
    \/ SegLX(BatchSegments, MaxFileStream)
    \/ EndOfStream
    \/ TrCLM(BatchSegments, MaxFileStream)
    \/ TrLX(BatchSegments, MaxFileStream)
    \/ TrEndOfStream
    \/ Raise
    \/ WriteOutput
    \/ WriteFails
    \/ RecordFailure

SpecBatch == InitBatch /\ [][NextBatch]_vars

BatchEnded == pc = "batch_done"

(* C25: a failure while a file is processed is recorded as a failure of    *)
(* that file only and the loop goes on with the next file; when the batch  *)
(* ends, success_count + error_count is the number of files found.         *)
C25_EveryFileCounted ==
    /\ driver # "none" =>
          /\ success_count + error_count = file_index
          /\ Len(history) = file_index
          /\ error_count = Cardinality({i \in 1..Len(history) : ~history[i].written})
          /\ \A i \in 1..Len(history) : history[i].input = input_files[i]
          /\ pc = "batch_done" <=> file_index = Len(input_files)
    /\ BatchEnded => success_count + error_count = Len(input_files)

\* A first file that failed and a second that succeeded
C25_Witness ==
    /\ BatchEnded
    /\ Len(input_files) = 2
    /\ history[1].outcome = "raised"
    /\ history[2].written
    /\ success_count = 1
    /\ error_count = 1


(* C26: in a batch run, two distinct input files found never map to the   *)
(* same output path: of the files the loop has finished, no two distinct  *)
(* ones have the same output_file, so no output overwrites another's.     *)
C26_DistinctOutputPaths ==
    driver # "none" =>
        /\ \A i, j \in 1..file_index :
              input_files[i] # input_files[j] =>
                  output_file(driver, input_files[i]) # output_file(driver, input_files[j])
        /\ \A i, j \in 1..Len(writes) :
              writes[i].input # writes[j].input => writes[i].path # writes[j].path


\* The files finished whose translation returned, whose output was written
\* and whose structure validate_output rejects
ValidationFailed(i) ==
    /\ history[i].outcome = "returned"
    /\ history[i].written
    /\ ~validate_output(py_result(history[i].returned))[1]

(* C27: in batch_translate, when the translation of a file succeeds and    *)
(* validate_output fails, the output file has been written, the file is    *)
(* counted as successful, its entry of results is a SUCCESS with the       *)
(* message as a WARNING, and error_count is not incremented: it counts the *)
(* files whose call or write raised only.                                  *)
C27_ValidationFailureIsWarning ==
    driver = "batch_translate" =>
        /\ \A i \in 1..Len(history) :
              ValidationFailed(i) =>
                  /\ \E k \in 1..Len(writes) :
                        /\ writes[k].input = history[i].input
                        /\ writes[k].complete
                        /\ writes[k].data = history[i].returned
                  /\ batch_results[i].input = history[i].input
                  /\ batch_results[i].status = "SUCCESS"
                  /\ batch_results[i].validation
                        = "WARNING: " \o validate_output(py_result(history[i].returned))[2]
        /\ error_count = Cardinality({i \in 1..Len(history) :
                                         \/ history[i].outcome = "raised"
                                         \/ ~history[i].written})
        /\ success_count = Cardinality({i \in 1..Len(history) : history[i].written})

\* A file without segments, then a file with a claim
C27_Witness ==
    /\ driver = "batch_translate"
    /\ BatchEnded
    /\ Len(history) = 2
    /\ history[1].stream = <<>>
    /\ ValidationFailed(1)
    /\ batch_results[1].validation = "WARNING: No segments found"
    /\ batch_results[2].status = "SUCCESS"
    /\ batch_results[2].validation = "VALID"
    /\ success_count = 2
    /\ error_count = 0


\* The number of CLM segments of a stream
NumCLM(stream) == Cardinality({i \in 1..Len(stream) : stream[i][1] = "CLM"})

\* What a call that returned gives for the stream it read: one record per
\* CLM segment, built after the last claim was sealed
CompleteRecordSet(f, stream, value, sealed) ==
    IF f = "parse_x12_for_viewer"
    THEN /\ Len(sealed) = NumCLM(stream)
         /\ value = return_value(build_results(sealed, pay_to_provider))
    ELSE /\ Len(value["claims"]) = NumCLM(stream)
         /\ Len(value["all_segments"]) = Len(stream)
         /\ value["summary"]["total_claims"] = NumCLM(stream)

(* C28: for a single file, parse_x12_for_viewer and                        *)
(* translate_x12_complete_structured either return the complete record set *)
(* of the stream or raise; when the exception occurs, at any segment, no   *)
(* record of a claim of the file is returned, claims sealed before the     *)
(* failing segment included, and the batch driver writes no output for     *)
(* the file and reports it as failed.                                      *)
C28_CompleteOrFailed ==
    /\ pc = "done" =>
          CompleteRecordSet(program, consumed, returned,
                            IF program = "parse_x12_for_viewer"
                            THEN claims_data ELSE returned["claims"])
    /\ pc = "raised" => returned = <<>> /\ results = <<>>
    /\ \A i \in 1..Len(history) :
          /\ history[i].outcome \in {"returned", "raised"}
          /\ history[i].outcome = "raised" =>
                /\ history[i].returned = <<>>
                /\ ~history[i].written
                /\ \A k \in 1..Len(writes) : writes[k].input # history[i].input
                /\ driver = "batch_translate" => batch_results[i].status = "FAILED"
                /\ error_count >= Cardinality({j \in 1..i : history[j].outcome = "raised"})
          /\ history[i].outcome = "returned" /\ history[i].written =>
                \E k \in 1..Len(writes) :
                    /\ writes[k].input = history[i].input
                    /\ writes[k].data = history[i].returned
                    /\ NumCLM(history[i].stream) =
                          IF driver = "batch_translate"
                          THEN Len(writes[k].data["claims"])
                          ELSE IF NumCLM(history[i].stream) = 1
                          THEN 1
                          ELSE Len(writes[k].data)

\* The reader raises after two CLM segments, the first claim sealed: the
\* file is failed and nothing of it is written; the next file succeeds
C28_Witness ==
    /\ BatchEnded
    /\ Len(history) = 2
    /\ history[1].outcome = "raised"
    /\ history[1].stream = <<<<"CLM", "A", "100">>, <<"CLM", "A", "100">>>>
    /\ history[2].written
    /\ Len(writes) = 1
    /\ writes[1].input = input_files[2]
    /\ error_count = 1

-----------------------------------------------------------------------------
(* Several files parsed one after the other in one process                 *)

FileSegments ==
    {<<"CLM", "A", "100">>, <<"NM1", "85", "2", "CLINIC">>,
     <<"N4", "AUSTIN", "TX", "78701">>}

\* batch_parse_for_viewer on MaxFiles files
InitFiles ==
    /\ InitBatch
    /\ driver = "batch_parse_for_viewer"
    /\ Len(input_files) = MaxFiles

NextFiles ==
    \/ StartFile
    \/ SegCLM(FileSegments, MaxFileStream)
    \/ SegNM1(FileSegments, MaxFileStream)
    \/ SegN4(FileSegments, MaxFileStream)
    \/ EndOfStream
    \/ WriteOutput

SpecFiles == InitFiles /\ [][NextFiles]_vars

(* C29: the state of the interpreter does not cross file boundaries: the   *)
(* result of parse_x12_for_viewer is a function of the stream alone. Two   *)
(* calls in one process on the same stream return equal results, whatever  *)
(* files were parsed before each, the first call (nothing before it)       *)
(* included; and each call begins with the locals of a first call.         *)
C29_ResultOfStreamAlone ==
    /\ \A i, j \in 1..Len(history) :
          history[i].stream = history[j].stream =>
              history[i].returned = history[j].returned
    /\ (pc = "loop" /\ consumed = <<>>) =>
          /\ claims_data = <<>>
          /\ current_claim = None
          /\ current_entity = NoEntity
          /\ temp_addresses = EmptyDict
          /\ \A party \in {transaction, submitter, receiver, billing_provider,
                           pay_to_provider, subscriber, payer} : party = EmptyDict

\* The same stream in two files, the second parsed after the first
C29_Witness ==
    /\ BatchEnded
    /\ Len(history) >= 2
    /\ history[1].stream = <<<<"NM1", "85", "2", "CLINIC">>, <<"CLM", "A", "100">>>>
    /\ history[2].stream = history[1].stream
    /\ history[2].returned = history[1].returned
    /\ Len(history[2].returned) = 12
    /\ history[2].returned[4].data["name"] = "CLINIC"

-----------------------------------------------------------------------------
(* The transaction header: ST and BHT segments, several of each            *)

TransactionSegments ==
    {<<"ST", "837", "0001", "005010X222A1">>, <<"ST", "837", "0002">>,
     <<"BHT", "0019", "00", "REF1", "20240105", "0930">>,
     <<"BHT", "0019", "18", "REF2", "20240106">>,
     <<"CLM", "A", "100">>}

NextTransaction ==
    \/ SegST(TransactionSegments, MaxTransaction)
    \/ SegBHT(TransactionSegments, MaxTransaction)
    \/ SegCLM(TransactionSegments, MaxTransaction)
    \/ EndOfStream

SpecTransaction == Init /\ [][NextTransaction]_vars

\* Is there a segment with the tag in the stream; the last one
HasTag(stream, tag) == \E p \in 1..Len(stream) : stream[p][1] = tag

LastWithTag(stream, tag) ==
    stream[CHOOSE p \in 1..Len(stream) :
              /\ stream[p][1] = tag
              /\ \A q \in (p + 1)..Len(stream) : stream[q][1] # tag]

\* The header the last ST and the last BHT of a stream give
HeaderOf(stream) ==
    LET st == LastWithTag(stream, "ST")
        bht == LastWithTag(stream, "BHT")
        of_st == IF HasTag(stream, "ST")
                 THEN [type |-> El(st, 1), controlNumber |-> El(st, 2),
                       version |-> El(st, 3)]
                 ELSE EmptyDict
        of_bht == IF HasTag(stream, "BHT")
                  THEN [purpose |-> El(bht, 1), referenceId |-> El(bht, 3),
                        date |-> parse_date(El(bht, 4)),
                        time |-> parse_time(El(bht, 5))]
                  ELSE EmptyDict
    IN [f \in DOMAIN of_st \cup DOMAIN of_bht |->
          IF f \in DOMAIN of_st THEN of_st[f] ELSE of_bht[f]]

(* C31: a later ST or BHT overwrites the header fields an earlier one set: *)
(* the header holds the fields of the last ST and of the last BHT read, an *)
(* ST leaves the fields of a BHT as they are and the reverse, and every    *)
(* output record carries that header.                                      *)
C31_LastHeaderWins ==
    /\ transaction = HeaderOf(consumed)
    /\ pc = "done" =>
          /\ Len(results) = Len(CLMsOf(consumed))
          /\ \A k \in 1..Len(results) :
                /\ results[k][1].section = "transaction"
                /\ results[k][1].data = HeaderOf(consumed)

\* ST, BHT, a second ST, then a claim: the record has the second ST's
\* control number and the BHT's reference
C31_Witness ==
    /\ pc = "done"
    /\ consumed = <<<<"ST", "837", "0001", "005010X222A1">>,
                    <<"BHT", "0019", "00", "REF1", "20240105", "0930">>,
                    <<"ST", "837", "0002">>,
                    <<"CLM", "A", "100">>>>
    /\ returned[1].data["controlNumber"] = "0002"
    /\ returned[1].data["version"] = ""
    /\ returned[1].data["referenceId"] = "REF1"
    /\ returned[1].data["date"] = "2024-01-05"

-----------------------------------------------------------------------------
(* A payer, a rendering provider or a service facility introduced twice    *)
(* in one claim                                                            *)

ReintroducedSegments ==
    {<<"CLM", "A", "100">>,
     <<"NM1", "PR", "2", "ACME", "", "", "", "", "PI", "P1">>,
     <<"NM1", "PR", "2", "", "", "", "", "", "PI", "P2">>,
     <<"NM1", "82", "1", "DOE", "JANE", "", "", "", "XX", "R1">>,
     <<"NM1", "82", "1", "ROE">>,
     <<"NM1", "77", "2", "FACIL", "", "", "", "", "XX", "F1">>,
     <<"NM1", "77", "2", "ANNEX">>,
     <<"N3", "1 MAIN ST">>,
     <<"N4", "TOWN", "TX", "75001">>}

NextReintroduced ==
    \/ SegCLM(ReintroducedSegments, MaxReintroduced)
    \/ SegNM1(ReintroducedSegments, MaxReintroduced)
    \/ SegN3(ReintroducedSegments, MaxReintroduced)
    \/ SegN4(ReintroducedSegments, MaxReintroduced)
    \/ EndOfStream

SpecReintroduced == Init /\ [][NextReintroduced]_vars

\* The position of the last CLM of a stream, 0 when it has none
LastCLM(stream) ==
    IF CLMPositions(stream) = {} THEN 0
    ELSE CHOOSE p \in CLMPositions(stream) : \A q \in CLMPositions(stream) : q <= p

\* The positions, after the last CLM, of the NM1 segments with a code
IntroducedInClaim(stream, code) ==
    {p \in (LastCLM(stream) + 1)..Len(stream) :
        stream[p][1] = "NM1" /\ El(stream[p], 1) = code}

LastIntroduced(stream, code) ==
    CHOOSE p \in IntroducedInClaim(stream, code) :
        \A q \in IntroducedInClaim(stream, code) : q <= p

\* The role was introduced twice or more in the claim now open
Reintroduced(code) ==
    /\ pc = "loop"
    /\ LastCLM(consumed) > 0
    /\ Cardinality(IntroducedInClaim(consumed, code)) >= 2

\* The values an address field may have got from the segments with the tag
\* read after position p
ValuesAfter(stream, p, tag, i) ==
    {""} \cup {El(stream[q], i) : q \in {r \in (p + 1)..Len(stream) : stream[r][1] = tag}}

(* C32: when a payer, a rendering provider or a service facility is        *)
(* introduced a second time while the same claim is open, the claim keeps  *)
(* only the record of the last introduction: its fields are those of the   *)
(* last NM1, and the service-facility address holds nothing but what the   *)
(* N3 and N4 segments read after that NM1 gave.                            *)
C32_LastIntroductionWins ==
    /\ Reintroduced("PR") =>
          LET nm1 == consumed[LastIntroduced(consumed, "PR")]
          IN current_claim["payer"] = [name |-> El(nm1, 3), payerId |-> El(nm1, 9)]
    /\ Reintroduced("82") =>
          LET nm1 == consumed[LastIntroduced(consumed, "82")]
          IN current_claim["renderingProvider"] =
                [firstName |-> El(nm1, 4), lastName |-> El(nm1, 3), npi |-> El(nm1, 9)]
    /\ Reintroduced("77") =>
          LET last == LastIntroduced(consumed, "77")
              nm1 == consumed[last]
              facility == claim_view(heap, current_claim)["serviceFacility"]
          IN /\ DOMAIN facility = {"name", "taxId", "address"}
             /\ facility["name"] = El(nm1, 3)
             /\ facility["taxId"] = El(nm1, 9)
             /\ Get(facility["address"], "street", "") \in ValuesAfter(consumed, last, "N3", 1)
             /\ Get(facility["address"], "city", "") \in ValuesAfter(consumed, last, "N4", 1)
             /\ Get(facility["address"], "state", "") \in ValuesAfter(consumed, last, "N4", 2)
             /\ Get(facility["address"], "zip", "") \in ValuesAfter(consumed, last, "N4", 3)

-----------------------------------------------------------------------------
(* Streams with header and party segments, with or without a claim         *)

NoClaimSegments ==
    {<<"ST", "837", "0001", "005010X222A1">>,
     <<"NM1", "85", "2", "BILLCO", "", "", "", "", "XX", "B1">>,
     <<"NM1", "PR", "2", "ACME", "", "", "", "", "PI", "P1">>,
     <<"N3", "1 MAIN ST">>,
     <<"HI", "ABK:J10">>,
     <<"LX", "1">>,
     <<"CLM", "A", "100">>}

NextNoClaim ==
    \/ SegST(NoClaimSegments, MaxNoClaim)
    \/ SegNM1(NoClaimSegments, MaxNoClaim)
    \/ SegN3(NoClaimSegments, MaxNoClaim)
    \/ SegHI(NoClaimSegments, MaxNoClaim)
    \/ SegLX(NoClaimSegments, MaxNoClaim)
    \/ SegCLM(NoClaimSegments, MaxNoClaim)
    \/ EndOfStream

SpecNoClaim == Init /\ [][NextNoClaim]_vars

(* C33: a stream without a CLM segment yields the empty sequence of        *)
(* records, whatever header and party segments it holds: the function      *)
(* returns, and what it returns is the empty list.                         *)
C33_NoClaimNoRecord ==
    /\ (pc = "done" /\ CLMsOf(consumed) = <<>>) =>
          /\ claims_data = <<>>
          /\ results = <<>>
          /\ returned = <<>>
    /\ (pc = "loop" /\ CLMsOf(consumed) = <<>>) =>
          /\ current_claim = None
          /\ claims_data = <<>>

\* A header, a billing provider, a payer and a diagnosis, and no claim
C33_Witness ==
    /\ pc = "done"
    /\ consumed = <<<<"ST", "837", "0001", "005010X222A1">>,
                    <<"NM1", "85", "2", "BILLCO", "", "", "", "", "XX", "B1">>,
                    <<"NM1", "PR", "2", "ACME", "", "", "", "", "PI", "P1">>,
                    <<"HI", "ABK:J10">>>>
    /\ billing_provider["name"] = "BILLCO"
    /\ payer["name"] = "ACME"
    /\ returned = <<>>

-----------------------------------------------------------------------------
\* The segments read since the last CLM, the CLM left out
SinceLastCLM(stream) == SubSeq(stream, LastCLM(stream) + 1, Len(stream))

\* The secondary codes the HI segments of a stream give, in order
RECURSIVE SecondaryOf(_)
SecondaryOf(stream) ==
    IF stream = <<>> THEN <<>>
    ELSE IF Head(stream)[1] = "HI"
    THEN CodesFrom(Head(stream), 2) \o SecondaryOf(Tail(stream))
    ELSE SecondaryOf(Tail(stream))

\* The primary code they give: that of the last HI with an element 1
RECURSIVE PrimaryOf(_)
PrimaryOf(stream) ==
    IF stream = <<>> THEN ""
    ELSE LET last == stream[Len(stream)]
         IN IF last[1] = "HI" /\ El(last, 1) # ""
            THEN clean_code(El(last, 1))
            ELSE PrimaryOf(SubSeq(stream, 1, Len(stream) - 1))

(* C34: the secondary diagnosis list of a claim is never cleared while the *)
(* claim is open: it holds the further codes of every HI segment read in   *)
(* the claim, those of a second HI after those of the first, and the       *)
(* primary is element 1 of the last HI that had one.                       *)
C34_SecondaryAccumulates ==
    /\ []((pc = "loop" /\ Truthy(current_claim)) =>
            /\ current_claim.diagnosis.secondary = SecondaryOf(SinceLastCLM(consumed))
            /\ current_claim.diagnosis.primary = PrimaryOf(SinceLastCLM(consumed)))
    /\ [][(ReadStep("HI") /\ Truthy(current_claim)) =>
             /\ Len(current_claim'.diagnosis.secondary)
                   >= Len(current_claim.diagnosis.secondary)
             /\ SubSeq(current_claim'.diagnosis.secondary, 1,
                       Len(current_claim.diagnosis.secondary))
                   = current_claim.diagnosis.secondary]_vars

\* Two HI segments in one claim: the primary of the second, the secondary
\* codes of both
C34_Witness ==
    /\ pc = "loop"
    /\ consumed = <<<<"CLM", "A", "100">>,
                    <<"HI", "ABK:K0230", "K0231">>,
                    <<"HI", "ABK:E119", "", "ABF:I10">>>>
    /\ current_claim.diagnosis.primary = "E119"
    /\ current_claim.diagnosis.secondary = <<"K0231", "I10">>

-----------------------------------------------------------------------------
(* Claim-scoped introductions between claims                               *)

ScopedSegments ==
    {<<"CLM", "A", "100">>,
     <<"CLM", "B", "50">>,
     <<"NM1", "PR", "2", "ACME", "", "", "", "", "PI", "P1">>,
     <<"NM1", "82", "1", "DOE", "JANE", "", "", "", "XX", "R1">>,
     <<"NM1", "77", "2", "FACIL", "", "", "", "", "XX", "F1">>}

NextScoped ==
    \/ SegCLM(ScopedSegments, MaxScoped)
    \/ SegNM1(ScopedSegments, MaxScoped)
    \/ EndOfStream

SpecScoped == Init /\ [][NextScoped]_vars

\* The key of a claim that holds the record of a claim-scoped role
ScopedKey(code) ==
    CASE code = "PR" -> "payer"
      [] code = "82" -> "renderingProvider"
      [] code = "77" -> "serviceFacility"

\* The record the NM1 branch makes for the role
ScopedRecord(code, nm1) ==
    CASE code = "PR" -> [name |-> El(nm1, 3), payerId |-> El(nm1, 9)]
      [] code = "82" -> [firstName |-> El(nm1, 4), lastName |-> El(nm1, 3),
                         npi |-> El(nm1, 9)]
      [] code = "77" -> [name |-> El(nm1, 3), taxId |-> El(nm1, 9),
                         address |-> EmptyDict]

(* C35: a claim-scoped introduction (NM1 code PR, 82 or 77) read between   *)
(* the k-th and the (k+1)-th CLM is attached to the k-th claim and never   *)
(* to the (k+1)-th: the k-th claim has a record of the role exactly when   *)
(* such an NM1 was read after the k-th CLM and before the next, and it is  *)
(* the record of the last of them; a claim a CLM opens has no payer,       *)
(* rendering provider or service facility of its own.                      *)
C35_AttachedToOpenClaim ==
    /\ [](\A k \in 1..Len(ClaimViews) : \A code \in {"PR", "82", "77"} :
            LET slice == ClaimSlice(consumed, k)
            IN IF NM1Positions(slice, code) = {}
               THEN ScopedKey(code) \notin DOMAIN ClaimViews[k]
               ELSE /\ ScopedKey(code) \in DOMAIN ClaimViews[k]
                    /\ ClaimViews[k][ScopedKey(code)]
                          = ScopedRecord(code, LastNM1(slice, code)))
    /\ [][ReadStep("CLM") =>
             DOMAIN current_claim'
                \cap {"payer", "renderingProvider", "serviceFacility"} = {}]_vars

\* A payer and a facility after the first CLM, a rendering provider after
\* the second: each in the claim open when it was read
C35_Witness ==
    /\ pc = "done"
    /\ Len(claims_data) = 2
    /\ Len(consumed) = 5
    /\ consumed[1] = <<"CLM", "A", "100">>
    /\ consumed[2][2] = "PR"
    /\ consumed[3][2] = "77"
    /\ consumed[4] = <<"CLM", "B", "50">>
    /\ consumed[5][2] = "82"
    /\ DOMAIN claims_data[1] \cap {"payer", "renderingProvider", "serviceFacility"}
          = {"payer", "serviceFacility"}
    /\ DOMAIN claims_data[2] \cap {"payer", "renderingProvider", "serviceFacility"}
          = {"renderingProvider"}

-----------------------------------------------------------------------------
(* Rendering provider and service facility introduced with no claim open   *)

UnclaimedSegments ==
    {<<"NM1", "85", "2", "BILLCO", "", "", "", "", "XX", "B1">>,
     <<"NM1", "82", "1", "DOE", "JANE", "", "", "", "XX", "R1">>,
     <<"NM1", "77", "2", "FACIL", "", "", "", "", "XX", "F1">>,
     <<"CLM", "A", "100">>,
     <<"CLM", "B", "50">>}

NextUnclaimed ==
    \/ SegNM1(UnclaimedSegments, MaxUnclaimed)
    \/ SegCLM(UnclaimedSegments, MaxUnclaimed)
    \/ EndOfStream

SpecUnclaimed == Init /\ [][NextUnclaimed]_vars

\* current_entity after the NM1 of a claim-scoped role
ScopedRole(code) ==
    CASE code = "PR" -> "payer"
      [] code = "82" -> "rendering_provider"
      [] code = "77" -> "service_facility"

(* C36: an NM1 with code 82 or 77 read while no claim is open changes      *)
(* nothing but the current role, which becomes that of the code; in the    *)
(* output, the rendering-provider section of a claim with no NM1*82 of     *)
(* its own is the empty record and the service-facility section of a       *)
(* claim with no NM1*77 of its own is the billing-provider record.         *)
C36_NoClaimNoRecordDefaults ==
    /\ [][(ReadStep("NM1") /\ LastRead[2] \in {"82", "77"} /\ current_claim = None) =>
             /\ current_entity' = ScopedRole(LastRead[2])
             /\ UNCHANGED <<transaction, parties, temp_addresses, claims, heap>>]_vars
    /\ [](pc = "done" =>
            \A k \in 1..Len(results) :
               LET slice == ClaimSlice(consumed, k)
               IN /\ NM1Positions(slice, "82") = {} =>
                        results[k][10] = [section |-> "renderingProvider",
                                          data |-> EmptyDict]
                  /\ NM1Positions(slice, "77") = {} =>
                        results[k][11] = [section |-> "serviceFacility",
                                          data |-> billing_provider]
                  /\ NM1Positions(slice, "82") # {} =>
                        results[k][10].data = claims_data[k]["renderingProvider"]
                  /\ NM1Positions(slice, "77") # {} =>
                        results[k][11].data = claims_data[k]["serviceFacility"])

\* Both roles introduced before the only claim, after the billing provider
C36_Witness ==
    /\ pc = "done"
    /\ consumed = <<<<"NM1", "85", "2", "BILLCO", "", "", "", "", "XX", "B1">>,
                    <<"NM1", "82", "1", "DOE", "JANE", "", "", "", "XX", "R1">>,
                    <<"NM1", "77", "2", "FACIL", "", "", "", "", "XX", "F1">>,
                    <<"CLM", "A", "100">>>>
    /\ current_entity = "service_facility"
    /\ Len(results) = 1
    /\ results[1][10].data = EmptyDict
    /\ results[1][11].data = billing_provider
    /\ billing_provider["name"] = "BILLCO"

-----------------------------------------------------------------------------
(* translate_x12_complete_structured: raw segments, claims and their lines *)

ClaimLinesSegments ==
    {<<"CLM", "A", "100">>,
     <<"CLM", "B", "50">>,
     <<"LX", "1">>,
     <<"LX", "2">>,
     <<"SV1", "HC:99213", "60">>,
     <<"SV1", "HC:85025", "40">>,
     <<"SE", "9", "0001">>}

NextClaimLines ==
    \/ TrCLM(ClaimLinesSegments, MaxClaimLines)
    \/ TrLX(ClaimLinesSegments, MaxClaimLines)
    \/ TrSV1(ClaimLinesSegments, MaxClaimLines)
    \/ TrOther(ClaimLinesSegments, MaxClaimLines)
    \/ TrEndOfStream

SpecClaimLines == InitTranslate("claims.txt") /\ [][NextClaimLines]_vars

\* One raw entry per segment of a stream, in order
RawEntries(stream) ==
    [i \in 1..Len(stream) |-> [segment_id |-> stream[i][1], elements |-> stream[i]]]

\* The service lines of the first n claims of a list, counted
RECURSIVE LinesOfFirst(_, _)
LinesOfFirst(cs, n) ==
    IF n = 0 THEN 0 ELSE Len(cs[n]["service_lines"]) + LinesOfFirst(cs, n - 1)

(* C37: all_segments holds one entry per segment read, in stream order,    *)
(* whatever the segment; in the result returned, total_segments is the     *)
(* length of all_segments, total_claims is the length of claims and the    *)
(* number of CLM segments read, and total_service_lines is the sum of the  *)
(* lengths of the claims' service_lines lists.                             *)
C37_AllSegmentsAndSummary ==
    /\ result["all_segments"] = RawEntries(consumed)
    /\ pc = "done" =>
          /\ returned["all_segments"] = RawEntries(consumed)
          /\ returned["summary"]["total_segments"] = Len(returned["all_segments"])
          /\ returned["summary"]["total_claims"] = Len(returned["claims"])
          /\ returned["summary"]["total_claims"] = Len(CLMsOf(consumed))
          /\ \A k \in 1..Len(returned["claims"]) :
                "service_lines" \in DOMAIN returned["claims"][k]
          /\ returned["summary"]["total_service_lines"]
                = LinesOfFirst(returned["claims"], Len(returned["claims"]))

\* Two claims, three lines and a segment without a branch
C37_Witness ==
    /\ pc = "done"
    /\ consumed = <<<<"CLM", "A", "100">>, <<"LX", "1">>, <<"LX", "2">>,
                    <<"CLM", "B", "50">>, <<"SE", "9", "0001">>>>
    /\ returned["summary"] = [total_segments |-> 5, total_claims |-> 2,
                              total_service_lines |-> 2]

-----------------------------------------------------------------------------
\* The positions of the LX segments of a slice, and the j-th of them
LXPositions(slice) == {p \in 1..Len(slice) : slice[p][1] = "LX"}

KthLX(slice, j) ==
    CHOOSE p \in LXPositions(slice) :
        Cardinality({q \in LXPositions(slice) : q <= p}) = j

\* The positions of the SV1 segments that follow the j-th LX of a slice
\* before its next LX
SV1After(slice, j) ==
    {p \in 1..Len(slice) :
        /\ slice[p][1] = "SV1"
        /\ p > KthLX(slice, j)
        /\ \A q \in LXPositions(slice) : q > KthLX(slice, j) => p < q}

\* The service lines a slice gives: one per LX, in order, each with the
\* service of the last SV1 that follows it before the next LX
SliceLines(slice) ==
    [j \in 1..Cardinality(LXPositions(slice)) |->
        LET line == current_service_line(slice[KthLX(slice, j)])
            sv == SV1After(slice, j)
        IN IF sv = {} THEN line
           ELSE Put(line, "service_info",
                    service_info(slice[CHOOSE p \in sv : \A q \in sv : q <= p]))]

(* C38: the service lines of the k-th claim returned are the LX segments   *)
(* read between the k-th CLM and the next CLM or the end of the stream,    *)
(* in input order, each with the service of the last SV1 read after it     *)
(* and before the next LX; LX and SV1 segments read before the first CLM   *)
(* are in no claim, and while the loop runs the pending lines are those    *)
(* of the open claim alone.                                                *)
C38_LinesOfOpenClaim ==
    /\ pc = "loop" =>
          /\ Len(result["claims"]) = IF CLMsOf(consumed) = <<>> THEN 0
                                     ELSE Len(CLMsOf(consumed)) - 1
          /\ \A k \in 1..Len(result["claims"]) :
                result["claims"][k]["service_lines"]
                   = SliceLines(ClaimSlice(consumed, k))
          /\ current_service_lines =
                IF CLMsOf(consumed) = <<>> THEN <<>>
                ELSE SliceLines(ClaimSlice(consumed, Len(CLMsOf(consumed))))
    /\ pc = "done" =>
          /\ Len(returned["claims"]) = Len(CLMsOf(consumed))
          /\ \A k \in 1..Len(returned["claims"]) :
                returned["claims"][k]["service_lines"]
                   = SliceLines(ClaimSlice(consumed, k))

\* A line and a service dropped before the first claim, a line with its
\* service in the first claim, a line without service in the second
C38_Witness ==
    /\ pc = "done"
    /\ consumed = <<<<"LX", "1">>, <<"CLM", "A", "100">>, <<"LX", "2">>,
                    <<"SV1", "HC:99213", "60">>, <<"CLM", "B", "50">>>>
    /\ Len(returned["claims"]) = 2
    /\ Len(returned["claims"][1]["service_lines"]) = 1
    /\ returned["claims"][1]["service_lines"][1]["line_number"] = "2"
    /\ returned["claims"][1]["service_lines"][1]["service_info"]["line_charge"] = "60"
    /\ returned["claims"][2]["service_lines"] = <<>>

=============================================================================
